---- MODULE Spec2Model ----
(***************************************************************************)
(* hooklift/oauth2: the authorization endpoint (authorizations.go), the    *)
(* token endpoint (tokens.go) and the in-memory provider they run against  *)
(* (providers/test), as a state machine over HTTP requests.                *)
(*                                                                         *)
(* Go strings that the code only compares are TLA+ strings.  Scope strings *)
(* are split, joined and searched by the code, so they are sequences of    *)
(* one-character strings.  A *url.URL is a pointer: the URL registered for *)
(* the provider's client lives in one heap cell (p.ClientURL) that every   *)
(* copy of p.Client and every grant generated for it points to.            *)
(***************************************************************************)
EXTENDS Integers, Sequences, FiniteSets, TLC

VARIABLES
    p,        \* the provider: *test.Provider and the URL cell its client points to
    pre,      \* the provider as it was when the last request arrived
    req,      \* the last request handled
    resp,     \* the response written for it
    inflight, \* per worker: an authorization_code exchange between GrantInfo and GenToken
    hist      \* what earlier responses have established (codes exchanged, tokens rotated, revoked)

vars == <<p, pre, req, resp, inflight, hist>>

\* Bound of the model: how many values uuid.NewV4 may generate in a run.
MaxUUID == 6
\* The same for the runs of the authorization endpoint alone.
MaxUUIDAuthz == 2
\* The same for the runs of the validation of authorization requests.
MaxUUIDLadder == 1
MaxUUIDGate == 4
MaxUUIDConsent == 3

Workers == {"w1", "w2"}

(***************************************************************************)
(* Strings                                                                 *)
(***************************************************************************)
\* strings.Contains(s, sub)
Contains(s, sub) ==
    \E i \in 0..(Len(s) - Len(sub)) : SubSeq(s, i + 1, i + Len(sub)) = sub

\* strings.Split(s, " ")
RECURSIVE Split(_)
Split(s) ==
    IF \A i \in 1..Len(s) : s[i] # " "
    THEN <<s>>
    ELSE LET i == CHOOSE k \in 1..Len(s) :
                      s[k] = " " /\ \A j \in 1..(k - 1) : s[j] # " "
         IN  <<SubSeq(s, 1, i - 1)>> \o Split(SubSeq(s, i + 1, Len(s)))

\* pkg.StringifyScopes: the ids, each followed by a space, the last space removed.
RECURSIVE ScopeConcat(_)
ScopeConcat(scopes) ==
    IF scopes = <<>> THEN <<>>
    ELSE Head(scopes).ID \o <<" ">> \o ScopeConcat(Tail(scopes))

StringifyScopes(scopes) ==
    IF Len(scopes) <= 0 THEN <<>>
    ELSE LET scope == ScopeConcat(scopes) IN SubSeq(scope, 1, Len(scope) - 1)

(***************************************************************************)
(* net/url                                                                 *)
(***************************************************************************)
\* url.Values as a map from keys to values; url.Values.Set
NoValues == <<>>
ValuesSet(q, k, v) == [x \in (DOMAIN q) \cup {k} |-> IF x = k THEN v ELSE q[x]]

\* The zero url.URL, which is also what url.Parse("") returns.
ZeroURL == [Scheme |-> "", Host |-> "", RawQuery |-> NoValues, Fragment |-> <<>>]

ToLower(s) == IF s = "HTTPS" THEN "https" ELSE IF s = "HTTP" THEN "http" ELSE s

\* url.Parse: fails on a malformed string, lower-cases the scheme.
ParseOK(raw) == raw.wellformed
Parse(raw) ==
    [Scheme |-> ToLower(raw.scheme), Host |-> raw.host,
     RawQuery |-> raw.query, Fragment |-> raw.fragment]

\* (*url.URL).String(): the text of the URL, as the tuple of its parts.
String(u) == <<u.Scheme, u.Host, u.RawQuery, u.Fragment>>

\* The text a client would send to name URL u.
Raw(u) == [wellformed |-> TRUE, scheme |-> u.Scheme, host |-> u.Host,
           query |-> u.RawQuery, fragment |-> u.Fragment]

\* A *url.URL: nil, a private object, or the cell of the provider's client.
NilPtr == <<"nil">>
HeapPtr == <<"p.Client.RedirectURL">>
ValPtr(u) == <<"val", u>>
Deref(P, ptr) == IF ptr = HeapPtr THEN P.ClientURL ELSE ptr[2]

(***************************************************************************)
(* types                                                                   *)
(***************************************************************************)
ZeroClient == [ID |-> "", Name |-> "", RedirectURL |-> NilPtr]
ZeroGrantCode == [Value |-> "", ClientID |-> "", RedirectURL |-> NilPtr,
                  Scope |-> <<>>, IsUsed |-> FALSE, IsRevoked |-> FALSE,
                  IsExpired |-> FALSE]
ZeroToken == [Value |-> "", Type |-> "", ClientID |-> "", ExpiresIn |-> "",
              RefreshToken |-> "", Scope |-> <<>>, Status |-> ""]

\* The TokenStatus values; the zero value "" is that of a token in use.
TokenExpired == "expired"
TokenRevoked == "revoked"

\* Go map lookup: the zero value when the key is absent.
MapGet(m, k, zero) == IF k \in DOMAIN m THEN m[k] ELSE zero
MapPut(m, k, v) == [x \in (DOMAIN m) \cup {k} |-> IF x = k THEN v ELSE m[x]]
MapDelete(m, k) == [x \in (DOMAIN m) \ {k} |-> m[x]]

(***************************************************************************)
(* errors                                                                  *)
(***************************************************************************)
NoError == [Code |-> "", Description |-> "", State |-> ""]
ErrRedirectURLMismatch ==
    [Code |-> "access_denied",
     Description |-> "3rd-party client app provided a redirect_uri that does not match the URI registered for this client in our database.",
     State |-> ""]
ErrRedirectURLInvalid ==
    [Code |-> "access_denied",
     Description |-> "3rd-party client app provided an invalid redirect_uri. It does not comply with http://tools.ietf.org/html/rfc3986#section-4.3 or does not use HTTPS.",
     State |-> ""]
ErrClientIDMissing ==
    [Code |-> "unauthorized_client",
     Description |-> "3rd-party client app didn't send us its client ID.",
     State |-> ""]
ErrClientIDNotFound ==
    [Code |-> "unauthorized_client",
     Description |-> "3rd-party client app requesting access to your resources was not found in our database.",
     State |-> ""]
ErrUnauthorizedClient ==
    [Code |-> "unauthorized_client",
     Description |-> "You must provide an authorization header with your client credentials.",
     State |-> ""]
ErrUnsupportedGrantType ==
    [Code |-> "unsupported_grant_type",
     Description |-> "grant_type provided is not supported by this authorization server.",
     State |-> ""]
ErrInvalidGrant ==
    [Code |-> "invalid_grant",
     Description |-> "The provided authorization grant (e.g., authorization code, resource owner credentials) or refresh token is invalid, expired, revoked, does not match the redirection URI used in the authorization request, or was issued to another client.",
     State |-> ""]
ErrUnathorizedUser ==
    [Code |-> "access_denied",
     Description |-> "Resource owner credentials are invalid.",
     State |-> ""]
ErrInvalidScope ==
    [Code |-> "invalid_scope",
     Description |-> "Scope exceeds the scope granted by the resource owner.",
     State |-> ""]
ErrClientIDMismatch ==
    [Code |-> "invalid_request",
     Description |-> "Authenticated client did not generate token used.",
     State |-> ""]
ErrUnsupportedTokenType ==
    [Code |-> "invalid_token", Description |-> "Unsupported token type.", State |-> ""]
ErrInvalidToken ==
    [Code |-> "invalid_token", Description |-> "Access token expired or was revoked.",
     State |-> ""]
ErrInsufficientScope ==
    [Code |-> "insufficient_scope",
     Description |-> "The request requires higher privileges than provided by the access token.",
     State |-> ""]
ErrUnsupportedResponseType(state) ==
    [Code |-> "unsupported_response_type",
     Description |-> "Authorization server does not support obtaining an authorization code using this authorization flow.",
     State |-> state]
ErrStateRequired(state) ==
    [Code |-> "invalid_request",
     Description |-> "state parameter is required by this authorization server.",
     State |-> state]
ErrScopeRequired(state) ==
    [Code |-> "invalid_request",
     Description |-> "scope parameter is required by this authorization server.",
     State |-> state]
ErrServerError(state) ==
    [Code |-> "server_error",
     Description |-> "The authorization server encountered an unexpected condition that prevented it from fulfilling the request.",
     State |-> state]

WithDescription(e, d) == [e EXCEPT !.Description = d]

\* EncodeErrInURI: the error's fields set in the query of u.
EncodeErrInURI(u, err) ==
    LET q1 == ValuesSet(u.RawQuery, "error", err.Code)
        q2 == IF err.Description # "" THEN ValuesSet(q1, "error_description", err.Description) ELSE q1
        q3 == IF err.State # "" THEN ValuesSet(q2, "state", err.State) ELSE q2
    IN  [u EXCEPT !.RawQuery = q3]

(***************************************************************************)
(* providers/test: the provider                                            *)
(***************************************************************************)
\* The URL NewProvider registers for its client, and the login URL of the configuration.
RegisteredURL == [Scheme |-> "https", Host |-> "example.com/oauth2/callback",
                  RawQuery |-> NoValues, Fragment |-> <<>>]
ConfiguredLoginURL == [Scheme |-> "https", Host |-> "api.hooklift.io/accounts/login",
                       RawQuery |-> NoValues, Fragment |-> <<>>]

NewProvider(isUserAuthenticated) ==
    [Client |-> [ID |-> "test_client_id", Name |-> "Test Client", RedirectURL |-> HeapPtr],
     ClientURL |-> RegisteredURL,
     LoginURL |-> ConfiguredLoginURL,
     GrantCodes |-> <<>>,
     AccessTokens |-> <<>>,
     RefreshTokens |-> <<>>,
     isUserAuthenticated |-> isUserAuthenticated,
     uuid |-> 0]

\* uuid.NewV4().String(): the n-th value generated, distinct from every other.
NewV4(n) == "u" \o ToString(n)

ClientInfo(P, clientID) == P.Client

\* GenGrantCode with a code value that is the same for every grant.
GenGrantCodeSameValue(P, client, scopes) ==
    LET a == [ZeroGrantCode EXCEPT !.Value = NewV4(1),
                                   !.ClientID = client.ID,
                                   !.RedirectURL = client.RedirectURL,
                                   !.Scope = scopes]
    IN  [P |-> [P EXCEPT !.uuid = @ + 1,
                         !.GrantCodes = MapPut(@, a.Value, a)],
         grant |-> a]

GenGrantCode(P, client, scopes) ==
    LET a == [ZeroGrantCode EXCEPT !.Value = NewV4(P.uuid + 1),
                                   !.ClientID = client.ID,
                                   !.RedirectURL = client.RedirectURL,
                                   !.Scope = scopes]
    IN  [P |-> [P EXCEPT !.uuid = @ + 1,
                         !.GrantCodes = MapPut(@, a.Value, a)],
         grant |-> a]

ScopesInfo(scopes) ==
    LET s == Split(scopes) IN [i \in 1..Len(s) |-> [ID |-> s[i]]]

GenToken(P, grantCode, client, refreshToken) ==
    LET t0 == [ZeroToken EXCEPT !.Value = NewV4(P.uuid + 1),
                                !.Type = "bearer",
                                !.Scope = grantCode.Scope,
                                !.ClientID = client.ID,
                                !.ExpiresIn = "600"]
        t  == IF refreshToken THEN [t0 EXCEPT !.RefreshToken = NewV4(P.uuid + 2)] ELSE t0
        P1 == IF refreshToken
              THEN [P EXCEPT !.RefreshTokens = MapPut(@, t.RefreshToken, t)]
              ELSE P
        P2 == IF grantCode.Value \in DOMAIN P1.GrantCodes
              THEN [P1 EXCEPT !.GrantCodes[grantCode.Value].IsUsed = TRUE]
              ELSE P1
    IN  [P |-> [P2 EXCEPT !.AccessTokens = MapPut(@, t.Value, t),
                          !.uuid = @ + (IF refreshToken THEN 2 ELSE 1)],
         token |-> t]

RevokeToken(P, token) == [P EXCEPT !.AccessTokens = MapDelete(@, token)]

RefreshToken(P, refreshToken, scopes) ==
    GenToken([P EXCEPT !.RefreshTokens = MapDelete(@, refreshToken.Value)],
             [ZeroGrantCode EXCEPT !.Scope = scopes],
             [ZeroClient EXCEPT !.ID = refreshToken.ClientID],
             TRUE)

IsUserAuthenticated(P) == P.isUserAuthenticated

AuthenticateClient(P, username, password) ==
    IF username = "boo"
    THEN [ID |-> "boo", Name |-> "Boo", RedirectURL |-> ValPtr(RegisteredURL)]
    ELSE P.Client

GrantInfo(P, code) == MapGet(P.GrantCodes, code, ZeroGrantCode)

TokenInfo(P, code) ==
    IF code \in DOMAIN P.AccessTokens
    THEN P.AccessTokens[code]
    ELSE MapGet(P.RefreshTokens, code, ZeroToken)

AuthenticateUser(P, username, password) == TRUE

(***************************************************************************)
(* Responses                                                               *)
(***************************************************************************)
ZeroAuthzData == [Client |-> ZeroClient, Scopes |-> <<>>, GrantType |-> "", State |-> ""]

\* What a provider's failing call returns as err.Error().
ProviderErrorText == "provider error text"

\* The messages a failing call may come with, and err.Error() for request r:
\* the message the request's scenario names, if it names one.
ErrorTexts == {ProviderErrorText, "dial tcp 10.0.0.7:5432: connection refused"}
ErrorText(r) == IF "errText" \in DOMAIN r THEN r.errText ELSE ProviderErrorText

\* The headers a handler sets on its response: none.
NoHeaders == <<>>

NoResponse ==
    [kind |-> "none", status |-> 0, error |-> NoError, token |-> ZeroToken,
     location |-> ZeroURL, data |-> ZeroAuthzData, headers |-> NoHeaders,
               body |-> ""]

\* What Handler sets cfg.stsMaxAge to when no option changes it: one year, in
\* seconds.  The zero time.Duration is what an Options has when none is given.
DefaultSTSMaxAge == 31536000
ZeroDuration == 0

\* cache: the headers that forbid caching, unless opts.Cache is set.
CacheHeaders(cache) ==
    IF ~cache
    THEN ("Cache-Control" :> "no-store") @@ ("Pragma" :> "no-cache") @@ ("Expires" :> "0")
    ELSE NoHeaders

\* The headers render.JSON sets; no handler sets opts.Cache.
JSONHeaders ==
    ("Content-Type" :> "application/json; charset=utf-8") @@ CacheHeaders(FALSE)

\* The headers render.HTML sets, for the STSMaxAge of its Options in seconds.
HTMLHeaders(stsMaxAge) ==
    ("Content-Type" :> "text/html; charset=utf-8")
    @@ ("Strict-Transport-Security" :> <<"max-age=", stsMaxAge>>)
    @@ ("X-Frame-Options" :> "SAMEORIGIN")
    @@ ("X-XSS-Protection" :> "1; mode=block")
    @@ ("X-Content-Type-Options" :> "nosniff")
    @@ CacheHeaders(FALSE)

\* render.JSON with an error, with a token, and with no Data.
JSONError(status, err) ==
    [NoResponse EXCEPT !.kind = "json", !.status = status, !.error = err,
                       !.headers = JSONHeaders]

\* render.JSON of a token with opts.Cache set.
JSONTokenCached(status, token) ==
    [NoResponse EXCEPT !.kind = "json", !.status = status, !.token = token,
                       !.headers = ("Content-Type" :> "application/json; charset=utf-8")
                                   @@ CacheHeaders(TRUE)]

JSONToken(status, token) ==
    [NoResponse EXCEPT !.kind = "json", !.status = status, !.token = token,
                       !.headers = JSONHeaders]
JSONEmpty(status) ==
    [NoResponse EXCEPT !.kind = "json", !.status = status, !.headers = JSONHeaders]

\* render.HTML of the authorization form with its data, which is given
\* cfg.stsMaxAge, or with one error, which is given no STSMaxAge.
HTMLForm(authzData) ==
    [NoResponse EXCEPT !.kind = "html", !.status = 200, !.data = authzData,
                       !.headers = HTMLHeaders(DefaultSTSMaxAge)]
HTMLError(err) ==
    [NoResponse EXCEPT !.kind = "html", !.status = 200, !.error = err,
                       !.headers = HTMLHeaders(ZeroDuration)]

\* http.Redirect(w, req, u.String(), http.StatusFound)
Redirect(u) ==
    [NoResponse EXCEPT !.kind = "redirect", !.status = 302, !.location = u]

\* A nil *url.URL dereferenced: the handler panics and writes nothing.
Panic == [NoResponse EXCEPT !.kind = "panic"]

Out(P, r) == [P |-> P, resp |-> r]

(***************************************************************************)
(* tokens.go: the token endpoint                                           *)
(***************************************************************************)
\* authCodeGrant2's checks without the test of the grant's status.
authCodeGrant2ChecksNoStatus(P, r, cinfo) ==
    LET grantCode == GrantInfo(P, r.code) IN
    IF r.code = ""
    THEN JSONError(400, ErrUnauthorizedClient)
    ELSE IF r.fault = "GrantInfo"
    THEN JSONError(400, WithDescription(ErrInvalidGrant, ErrorText(r)))
    ELSE IF cinfo.RedirectURL = NilPtr \/ grantCode.RedirectURL = NilPtr
    THEN Panic
    ELSE IF String(Deref(P, cinfo.RedirectURL)) # String(Deref(P, grantCode.RedirectURL))
    THEN JSONError(400, WithDescription(ErrInvalidGrant,
                        "Grant code was generated for a different redirect URI."))
    ELSE IF grantCode.ClientID # cinfo.ID
    THEN JSONError(400, WithDescription(ErrInvalidGrant,
                        "Grant code was generated for a different client ID."))
    ELSE NoResponse

\* authCodeGrant2's checks without the two tests of who owns the grant.
authCodeGrant2ChecksNoOwner(P, r, cinfo) ==
    LET grantCode == GrantInfo(P, r.code) IN
    IF r.code = ""
    THEN JSONError(400, ErrUnauthorizedClient)
    ELSE IF r.fault = "GrantInfo"
    THEN JSONError(400, WithDescription(ErrInvalidGrant, ErrorText(r)))
    ELSE IF grantCode.IsRevoked \/ grantCode.IsExpired \/ grantCode.IsUsed
    THEN JSONError(400, WithDescription(ErrInvalidGrant,
                        "Grant code was revoked, expired or already used."))
    ELSE NoResponse

\* authCodeGrant2's checks without the comparison of the redirect URLs.
authCodeGrant2ChecksNoRedirect(P, r, cinfo) ==
    LET grantCode == GrantInfo(P, r.code) IN
    IF r.code = ""
    THEN JSONError(400, ErrUnauthorizedClient)
    ELSE IF r.fault = "GrantInfo"
    THEN JSONError(400, WithDescription(ErrInvalidGrant, ErrorText(r)))
    ELSE IF grantCode.IsRevoked \/ grantCode.IsExpired \/ grantCode.IsUsed
    THEN JSONError(400, WithDescription(ErrInvalidGrant,
                        "Grant code was revoked, expired or already used."))
    ELSE IF grantCode.ClientID # cinfo.ID
    THEN JSONError(400, WithDescription(ErrInvalidGrant,
                        "Grant code was generated for a different client ID."))
    ELSE NoResponse

\* authCodeGrant2 up to its call of GenToken: the response that ends the
\* request there, or NoResponse when every check passed.
authCodeGrant2Checks(P, r, cinfo) ==
    LET grantCode == GrantInfo(P, r.code) IN
    IF r.code = ""
    THEN JSONError(400, ErrUnauthorizedClient)
    ELSE IF r.fault = "GrantInfo"
    THEN JSONError(400, WithDescription(ErrInvalidGrant, ErrorText(r)))
    ELSE IF grantCode.IsRevoked \/ grantCode.IsExpired \/ grantCode.IsUsed
    THEN JSONError(400, WithDescription(ErrInvalidGrant,
                        "Grant code was revoked, expired or already used."))
    ELSE IF cinfo.RedirectURL = NilPtr \/ grantCode.RedirectURL = NilPtr
    THEN Panic
    ELSE IF String(Deref(P, cinfo.RedirectURL)) # String(Deref(P, grantCode.RedirectURL))
    THEN JSONError(400, WithDescription(ErrInvalidGrant,
                        "Grant code was generated for a different redirect URI."))
    ELSE IF grantCode.ClientID # cinfo.ID
    THEN JSONError(400, WithDescription(ErrInvalidGrant,
                        "Grant code was generated for a different client ID."))
    ELSE NoResponse

\* The rest of authCodeGrant2: GenToken for the grant GrantInfo returned.
authCodeGrant2Issue(P, r, cinfo, grantCode) ==
    IF r.fault = "GenToken"
    THEN Out(P, JSONError(500, ErrServerError("")))
    ELSE LET g == GenToken(P, grantCode, cinfo, TRUE)
         IN  Out(g.P, JSONToken(200, g.token))

authCodeGrant2(P, r, cinfo) ==
    LET checked == authCodeGrant2Checks(P, r, cinfo) IN
    IF checked # NoResponse
    THEN Out(P, checked)
    ELSE authCodeGrant2Issue(P, r, cinfo, GrantInfo(P, r.code))

\* resourceOwnerCredentialsGrant (refresh = TRUE) and clientCredentialsGrant
\* (refresh = FALSE) after the resource owner's authentication.
noAuthzGrantToken(P, r, cinfo, refresh) ==
    IF r.scope # <<>> /\ r.fault = "ScopesInfo"
    THEN Out(P, JSONError(400, ErrServerError("")))
    ELSE IF r.fault = "GenToken"
    THEN Out(P, JSONError(500, ErrServerError("")))
    ELSE LET scopes == IF r.scope # <<>> THEN ScopesInfo(r.scope) ELSE <<>>
             noAuthzGrant == [ZeroGrantCode EXCEPT !.Scope = scopes]
             g == GenToken(P, noAuthzGrant, cinfo, refresh)
         IN  Out(g.P, JSONToken(200, g.token))

resourceOwnerCredentialsGrant(P, r, cinfo) ==
    IF ~AuthenticateUser(P, r.username, r.password) \/ r.fault = "AuthenticateUser"
    THEN Out(P, JSONError(400, ErrUnathorizedUser))
    ELSE noAuthzGrantToken(P, r, cinfo, TRUE)

\* clientCredentialsGrant that asks GenToken for a refresh token.
clientCredentialsGrantWithRefresh(P, r, cinfo) == noAuthzGrantToken(P, r, cinfo, TRUE)

clientCredentialsGrant(P, r, cinfo) == noAuthzGrantToken(P, r, cinfo, FALSE)

\* The requested scopes of a refresh that the stored token's scopes admit:
\* each id must occur in the text of the stored scopes.
ScopesGranted(tokenScope, scopes) ==
    LET tscopes == StringifyScopes(tokenScope)
    IN  \A i \in 1..Len(scopes) : Contains(tscopes, scopes[i].ID)

\* refreshToken without the comparison of the token's client with the caller.
refreshTokenAnyClient(P, r, cinfo) ==
    LET token == TokenInfo(P, r.refresh_token)
        requested == IF r.scope # <<>> THEN ScopesInfo(r.scope) ELSE <<>>
        scopes == IF Len(requested) = 0 THEN token.Scope ELSE requested
    IN  IF r.fault = "TokenInfo"
        THEN Out(P, JSONError(500, ErrServerError("")))
        ELSE IF r.scope # <<>> /\ r.fault = "ScopesInfo"
        THEN Out(P, JSONError(500, ErrServerError("")))
        ELSE IF r.scope # <<>> /\ ~ScopesGranted(token.Scope, requested)
        THEN Out(P, JSONError(400, ErrInvalidScope))
        ELSE IF r.fault = "RefreshToken"
        THEN Out(P, JSONError(500, ErrServerError("")))
        ELSE LET g == RefreshToken(P, token, scopes)
             IN  Out(g.P, JSONToken(200, g.token))

refreshToken(P, r, cinfo) ==
    LET token == TokenInfo(P, r.refresh_token)
        requested == IF r.scope # <<>> THEN ScopesInfo(r.scope) ELSE <<>>
        scopes == IF Len(requested) = 0 THEN token.Scope ELSE requested
    IN  IF r.fault = "TokenInfo"
        THEN Out(P, JSONError(500, ErrServerError("")))
        ELSE IF r.scope # <<>> /\ r.fault = "ScopesInfo"
        THEN Out(P, JSONError(500, ErrServerError("")))
        ELSE IF r.scope # <<>> /\ ~ScopesGranted(token.Scope, requested)
        THEN Out(P, JSONError(400, ErrInvalidScope))
        ELSE IF token.ClientID # cinfo.ID
        THEN Out(P, JSONError(400, ErrClientIDMismatch))
        ELSE IF r.fault = "RefreshToken"
        THEN Out(P, JSONError(500, ErrServerError("")))
        ELSE LET g == RefreshToken(P, token, scopes)
             IN  Out(g.P, JSONToken(200, g.token))

\* Client authentication that forgets the ok of req.BasicAuth().
ClientAuthenticatedNoHeader(r) == r.fault # "AuthenticateClient"

\* Client authentication, common to IssueToken and RevokeToken.
ClientAuthenticated(r) == r.basicAuth /\ r.fault # "AuthenticateClient"

IssueToken(P, r) ==
    LET cinfo == AuthenticateClient(P, r.username, r.password) IN
    IF ~ClientAuthenticated(r)
    THEN Out(P, JSONError(400, ErrUnauthorizedClient))
    ELSE CASE r.grant_type = "authorization_code" -> authCodeGrant2(P, r, cinfo)
           [] r.grant_type = "client_credentials" -> clientCredentialsGrant(P, r, cinfo)
           [] r.grant_type = "password" -> resourceOwnerCredentialsGrant(P, r, cinfo)
           [] r.grant_type = "refresh_token" -> refreshToken(P, r, cinfo)
           [] OTHER -> Out(P, JSONError(400, ErrUnsupportedGrantType))

\* RevokeToken without the comparison of the token's client with the caller.
RevokeTokenHandlerAnyClient(P, r) ==
    LET cinfo == AuthenticateClient(P, r.username, r.password)
        tokenInfo == TokenInfo(P, r.token)
    IN  IF ~ClientAuthenticated(r)
        THEN Out(P, JSONError(400, ErrUnauthorizedClient))
        ELSE IF r.fault = "TokenInfo"
        THEN Out(P, JSONEmpty(503))
        ELSE IF r.fault = "RevokeToken"
        THEN Out(P, JSONEmpty(503))
        ELSE Out(RevokeToken(P, r.token), JSONEmpty(200))

\* RevokeToken that calls provider.RevokeToken before it compares the
\* token's client with the caller.
RevokeTokenHandlerRevokeFirst(P, r) ==
    LET cinfo == AuthenticateClient(P, r.username, r.password)
        tokenInfo == TokenInfo(P, r.token)
    IN  IF ~ClientAuthenticated(r)
        THEN Out(P, JSONError(400, ErrUnauthorizedClient))
        ELSE IF r.fault = "TokenInfo"
        THEN Out(P, JSONEmpty(503))
        ELSE IF r.fault = "RevokeToken"
        THEN Out(P, JSONEmpty(503))
        ELSE IF tokenInfo.ClientID # cinfo.ID
        THEN Out(RevokeToken(P, r.token), JSONError(400, ErrClientIDMismatch))
        ELSE Out(RevokeToken(P, r.token), JSONEmpty(200))

RevokeTokenHandler(P, r) ==
    LET cinfo == AuthenticateClient(P, r.username, r.password)
        tokenInfo == TokenInfo(P, r.token)
    IN  IF ~ClientAuthenticated(r)
        THEN Out(P, JSONError(400, ErrUnauthorizedClient))
        ELSE IF r.fault = "TokenInfo"
        THEN Out(P, JSONEmpty(503))
        ELSE IF tokenInfo.ClientID # cinfo.ID
        THEN Out(P, JSONError(400, ErrClientIDMismatch))
        ELSE IF r.fault = "RevokeToken"
        THEN Out(P, JSONEmpty(503))
        ELSE Out(RevokeToken(P, r.token), JSONEmpty(200))

(***************************************************************************)
(* authorizations.go: the authorization endpoint                           *)
(***************************************************************************)
\* The five form values CreateGrant reads; a value that was not sent is "".
Params(r) ==
    [client_id |-> r.client_id, state |-> r.state, redirect_uri |-> r.redirect_uri,
     scope |-> r.scope, response_type |-> r.response_type]

\* req.URL.String(): the query string travels in the URL of a GET only.
RequestURL(r) ==
    IF r.method = "GET" THEN <<"https://example.com/oauth2/authzs", Params(r)>>
    ELSE <<"https://example.com/oauth2/authzs">>

\* A write through a *url.URL: it changes the provider's cell when the pointer is to it.
Store(P, ptr, u) == IF ptr = HeapPtr THEN [P EXCEPT !.ClientURL = u] ELSE P

\* authCodeGrant1 without the comparison of redirect_uri with the client's URL.
authCodeGrant1NoMatch(P, r) ==
    LET params == Params(r)
        clientID == params.client_id
        cinfo == IF r.fault = "ClientInfoNotFound" THEN ZeroClient ELSE ClientInfo(P, clientID)
        supplied == "redirect_uri" \in DOMAIN params
        redirectURL == IF supplied THEN Parse(params.redirect_uri)
                       ELSE Deref(P, cinfo.RedirectURL)
        state == params.state
        grantType == params.response_type
        scope == params.scope
        fail(x) == [resp |-> x, authzData |-> ZeroAuthzData]
    IN  IF clientID = ""
        THEN fail(HTMLError(ErrClientIDMissing))
        ELSE IF r.fault = "ClientInfo"
        THEN fail(HTMLError(ErrServerError("")))
        ELSE IF cinfo = ZeroClient
        THEN fail(HTMLError(ErrClientIDNotFound))
        ELSE IF supplied /\ ~ParseOK(params.redirect_uri)
        THEN fail(HTMLError(ErrRedirectURLInvalid))
        ELSE IF redirectURL.Scheme # "https"
        THEN fail(HTMLError(ErrRedirectURLInvalid))
        ELSE IF state = ""
        THEN fail(Redirect(EncodeErrInURI(redirectURL, ErrStateRequired(state))))
        ELSE IF grantType # "code" /\ grantType # "token"
        THEN fail(Redirect(EncodeErrInURI(redirectURL, ErrUnsupportedResponseType(state))))
        ELSE IF scope = <<>>
        THEN fail(Redirect(EncodeErrInURI(redirectURL, ErrScopeRequired(state))))
        ELSE IF r.fault = "ScopesInfo"
        THEN fail(Redirect(EncodeErrInURI(redirectURL, ErrServerError(state))))
        ELSE [resp |-> NoResponse,
              authzData |-> [Client |-> cinfo, Scopes |-> ScopesInfo(scope),
                             GrantType |-> grantType, State |-> state]]

\* authCodeGrant1 without the test that state was sent.
authCodeGrant1NoState(P, r) ==
    LET params == Params(r)
        clientID == params.client_id
        cinfo == IF r.fault = "ClientInfoNotFound" THEN ZeroClient ELSE ClientInfo(P, clientID)
        supplied == "redirect_uri" \in DOMAIN params
        redirectURL == IF supplied THEN Parse(params.redirect_uri)
                       ELSE Deref(P, cinfo.RedirectURL)
        state == params.state
        grantType == params.response_type
        scope == params.scope
        fail(x) == [resp |-> x, authzData |-> ZeroAuthzData]
    IN  IF clientID = ""
        THEN fail(HTMLError(ErrClientIDMissing))
        ELSE IF r.fault = "ClientInfo"
        THEN fail(HTMLError(ErrServerError("")))
        ELSE IF cinfo = ZeroClient
        THEN fail(HTMLError(ErrClientIDNotFound))
        ELSE IF supplied /\ ~ParseOK(params.redirect_uri)
        THEN fail(HTMLError(ErrRedirectURLInvalid))
        ELSE IF redirectURL.Scheme # "https"
        THEN fail(HTMLError(ErrRedirectURLInvalid))
        ELSE IF String(redirectURL) # String(Deref(P, cinfo.RedirectURL))
        THEN fail(HTMLError(ErrRedirectURLMismatch))
        ELSE IF grantType # "code" /\ grantType # "token"
        THEN fail(Redirect(EncodeErrInURI(redirectURL, ErrUnsupportedResponseType(state))))
        ELSE IF scope = <<>>
        THEN fail(Redirect(EncodeErrInURI(redirectURL, ErrScopeRequired(state))))
        ELSE IF r.fault = "ScopesInfo"
        THEN fail(Redirect(EncodeErrInURI(redirectURL, ErrServerError(state))))
        ELSE [resp |-> NoResponse,
              authzData |-> [Client |-> cinfo, Scopes |-> ScopesInfo(scope),
                             GrantType |-> grantType, State |-> state]]

\* authCodeGrant1 without the test that scope was sent.
authCodeGrant1NoScope(P, r) ==
    LET params == Params(r)
        clientID == params.client_id
        cinfo == IF r.fault = "ClientInfoNotFound" THEN ZeroClient ELSE ClientInfo(P, clientID)
        supplied == "redirect_uri" \in DOMAIN params
        redirectURL == IF supplied THEN Parse(params.redirect_uri)
                       ELSE Deref(P, cinfo.RedirectURL)
        state == params.state
        grantType == params.response_type
        scope == params.scope
        fail(x) == [resp |-> x, authzData |-> ZeroAuthzData]
    IN  IF clientID = ""
        THEN fail(HTMLError(ErrClientIDMissing))
        ELSE IF r.fault = "ClientInfo"
        THEN fail(HTMLError(ErrServerError("")))
        ELSE IF cinfo = ZeroClient
        THEN fail(HTMLError(ErrClientIDNotFound))
        ELSE IF supplied /\ ~ParseOK(params.redirect_uri)
        THEN fail(HTMLError(ErrRedirectURLInvalid))
        ELSE IF redirectURL.Scheme # "https"
        THEN fail(HTMLError(ErrRedirectURLInvalid))
        ELSE IF String(redirectURL) # String(Deref(P, cinfo.RedirectURL))
        THEN fail(HTMLError(ErrRedirectURLMismatch))
        ELSE IF state = ""
        THEN fail(Redirect(EncodeErrInURI(redirectURL, ErrStateRequired(state))))
        ELSE IF grantType # "code" /\ grantType # "token"
        THEN fail(Redirect(EncodeErrInURI(redirectURL, ErrUnsupportedResponseType(state))))
        ELSE IF r.fault = "ScopesInfo"
        THEN fail(Redirect(EncodeErrInURI(redirectURL, ErrServerError(state))))
        ELSE [resp |-> NoResponse,
              authzData |-> [Client |-> cinfo, Scopes |-> ScopesInfo(scope),
                             GrantType |-> grantType, State |-> state]]

\* authCodeGrant1 with the test of scope before that of response_type.
authCodeGrant1ScopeFirst(P, r) ==
    LET params == Params(r)
        clientID == params.client_id
        cinfo == IF r.fault = "ClientInfoNotFound" THEN ZeroClient ELSE ClientInfo(P, clientID)
        supplied == "redirect_uri" \in DOMAIN params
        redirectURL == IF supplied THEN Parse(params.redirect_uri)
                       ELSE Deref(P, cinfo.RedirectURL)
        state == params.state
        grantType == params.response_type
        scope == params.scope
        fail(x) == [resp |-> x, authzData |-> ZeroAuthzData]
    IN  IF clientID = ""
        THEN fail(HTMLError(ErrClientIDMissing))
        ELSE IF r.fault = "ClientInfo"
        THEN fail(HTMLError(ErrServerError("")))
        ELSE IF cinfo = ZeroClient
        THEN fail(HTMLError(ErrClientIDNotFound))
        ELSE IF supplied /\ ~ParseOK(params.redirect_uri)
        THEN fail(HTMLError(ErrRedirectURLInvalid))
        ELSE IF redirectURL.Scheme # "https"
        THEN fail(HTMLError(ErrRedirectURLInvalid))
        ELSE IF String(redirectURL) # String(Deref(P, cinfo.RedirectURL))
        THEN fail(HTMLError(ErrRedirectURLMismatch))
        ELSE IF state = ""
        THEN fail(Redirect(EncodeErrInURI(redirectURL, ErrStateRequired(state))))
        ELSE IF scope = <<>>
        THEN fail(Redirect(EncodeErrInURI(redirectURL, ErrScopeRequired(state))))
        ELSE IF grantType # "code" /\ grantType # "token"
        THEN fail(Redirect(EncodeErrInURI(redirectURL, ErrUnsupportedResponseType(state))))
        ELSE IF r.fault = "ScopesInfo"
        THEN fail(Redirect(EncodeErrInURI(redirectURL, ErrServerError(state))))
        ELSE [resp |-> NoResponse,
              authzData |-> [Client |-> cinfo, Scopes |-> ScopesInfo(scope),
                             GrantType |-> grantType, State |-> state]]

\* authCodeGrant1: the response that ends the request, or NoResponse and the
\* validated data.  Its error redirects write to the URL parsed from the request.
authCodeGrant1(P, r) ==
    LET params == Params(r)
        clientID == params.client_id
        cinfo == IF r.fault = "ClientInfoNotFound" THEN ZeroClient ELSE ClientInfo(P, clientID)
        supplied == "redirect_uri" \in DOMAIN params
        redirectURL == IF supplied THEN Parse(params.redirect_uri)
                       ELSE Deref(P, cinfo.RedirectURL)
        state == params.state
        grantType == params.response_type
        scope == params.scope
        fail(x) == [resp |-> x, authzData |-> ZeroAuthzData]
    IN  IF clientID = ""
        THEN fail(HTMLError(ErrClientIDMissing))
        ELSE IF r.fault = "ClientInfo"
        THEN fail(HTMLError(ErrServerError("")))
        ELSE IF cinfo = ZeroClient
        THEN fail(HTMLError(ErrClientIDNotFound))
        ELSE IF supplied /\ ~ParseOK(params.redirect_uri)
        THEN fail(HTMLError(ErrRedirectURLInvalid))
        ELSE IF redirectURL.Scheme # "https"
        THEN fail(HTMLError(ErrRedirectURLInvalid))
        ELSE IF String(redirectURL) # String(Deref(P, cinfo.RedirectURL))
        THEN fail(HTMLError(ErrRedirectURLMismatch))
        ELSE IF state = ""
        THEN fail(Redirect(EncodeErrInURI(redirectURL, ErrStateRequired(state))))
        ELSE IF grantType # "code" /\ grantType # "token"
        THEN fail(Redirect(EncodeErrInURI(redirectURL, ErrUnsupportedResponseType(state))))
        ELSE IF scope = <<>>
        THEN fail(Redirect(EncodeErrInURI(redirectURL, ErrScopeRequired(state))))
        ELSE IF r.fault = "ScopesInfo"
        THEN fail(Redirect(EncodeErrInURI(redirectURL, ErrServerError(state))))
        ELSE [resp |-> NoResponse,
              authzData |-> [Client |-> cinfo, Scopes |-> ScopesInfo(scope),
                             GrantType |-> grantType, State |-> state]]

\* implicitGrant that asks GenToken for a refresh token.
implicitGrantWithRefresh(P, r, authzData) ==
    LET ptr == authzData.Client.RedirectURL
        u == Deref(P, ptr)
        noAuthzGrant == [ZeroGrantCode EXCEPT !.Scope = authzData.Scopes]
        g == GenToken(P, noAuthzGrant, authzData.Client, TRUE)
        query == [access_token |-> g.token.Value,
                  token_type |-> g.token.Type,
                  expires_in |-> g.token.ExpiresIn,
                  scope |-> StringifyScopes(g.token.Scope),
                  state |-> authzData.State]
        uErr == EncodeErrInURI(u, ErrServerError(authzData.State))
        uOK == [u EXCEPT !.Fragment = <<"#", query>>]
    IN  IF r.fault = "GenToken"
        THEN Out(Store(P, ptr, uErr), Redirect(uErr))
        ELSE Out(Store(g.P, ptr, uOK), Redirect(uOK))

\* implicitGrant: the token goes into the fragment of the client's URL, which
\* is written through the pointer authzData.Client.RedirectURL.
implicitGrant(P, r, authzData) ==
    LET ptr == authzData.Client.RedirectURL
        u == Deref(P, ptr)
        noAuthzGrant == [ZeroGrantCode EXCEPT !.Scope = authzData.Scopes]
        g == GenToken(P, noAuthzGrant, authzData.Client, FALSE)
        query == [access_token |-> g.token.Value,
                  token_type |-> g.token.Type,
                  expires_in |-> g.token.ExpiresIn,
                  scope |-> StringifyScopes(g.token.Scope),
                  state |-> authzData.State]
        uErr == EncodeErrInURI(u, ErrServerError(authzData.State))
        uOK == [u EXCEPT !.Fragment = <<"#", query>>]
    IN  IF r.fault = "GenToken"
        THEN Out(Store(P, ptr, uErr), Redirect(uErr))
        ELSE Out(Store(g.P, ptr, uOK), Redirect(uOK))

\* CreateGrant without the question whether the resource owner is logged in.
CreateGrantNoLogin(P, r) ==
    LET checked == authCodeGrant1(P, r)
        authzData == checked.authzData
        g == GenGrantCode(P, authzData.Client, authzData.Scopes)
        ptr == authzData.Client.RedirectURL
        u == [Deref(g.P, ptr) EXCEPT
                 !.RawQuery = ValuesSet(ValuesSet(@, "code", g.grant.Value),
                                        "state", authzData.State)]
    IN  IF checked.resp # NoResponse
        THEN Out(P, checked.resp)
        ELSE IF r.method = "GET"
        THEN Out(P, HTMLForm(authzData))
        ELSE IF Params(r).response_type = "token"
        THEN implicitGrant(P, r, authzData)
        ELSE IF r.fault = "GenGrant"
        THEN Out(P, HTMLError(ErrServerError("")))
        ELSE Out(Store(g.P, ptr, u), Redirect(u))

\* CreateGrant without the rendering of the form for a GET.
CreateGrantOnGet(P, r) ==
    LET login == [P.LoginURL EXCEPT
                     !.RawQuery = ValuesSet(@, "redirect_to", RequestURL(r))]
        checked == authCodeGrant1(P, r)
        authzData == checked.authzData
        g == GenGrantCode(P, authzData.Client, authzData.Scopes)
        ptr == authzData.Client.RedirectURL
        u == [Deref(g.P, ptr) EXCEPT
                 !.RawQuery = ValuesSet(ValuesSet(@, "code", g.grant.Value),
                                        "state", authzData.State)]
    IN  IF ~IsUserAuthenticated(P)
        THEN Out([P EXCEPT !.LoginURL = login], Redirect(login))
        ELSE IF checked.resp # NoResponse
        THEN Out(P, checked.resp)
        ELSE IF Params(r).response_type = "token"
        THEN implicitGrant(P, r, authzData)
        ELSE IF r.fault = "GenGrant"
        THEN Out(P, HTMLError(ErrServerError("")))
        ELSE Out(Store(g.P, ptr, u), Redirect(u))

CreateGrant(P, r) ==
    LET login == [P.LoginURL EXCEPT
                     !.RawQuery = ValuesSet(@, "redirect_to", RequestURL(r))]
        checked == authCodeGrant1(P, r)
        authzData == checked.authzData
        g == GenGrantCode(P, authzData.Client, authzData.Scopes)
        ptr == authzData.Client.RedirectURL
        u == [Deref(g.P, ptr) EXCEPT
                 !.RawQuery = ValuesSet(ValuesSet(@, "code", g.grant.Value),
                                        "state", authzData.State)]
    IN  IF ~IsUserAuthenticated(P)
        THEN Out([P EXCEPT !.LoginURL = login], Redirect(login))
        ELSE IF checked.resp # NoResponse
        THEN Out(P, checked.resp)
        ELSE IF r.method = "GET"
        THEN Out(P, HTMLForm(authzData))
        ELSE IF Params(r).response_type = "token"
        THEN implicitGrant(P, r, authzData)
        ELSE IF r.fault = "GenGrant"
        THEN Out(P, HTMLError(ErrServerError("")))
        ELSE Out(Store(g.P, ptr, u), Redirect(u))

(***************************************************************************)
(* The resource gate: AuthzHandler wraps the handler of a protected resource *)
(***************************************************************************)
\* The Authorization header as the handler reads it, in its pieces.  net/http
\* hands over header values without trailing white space, so a scheme sent
\* with empty credentials arrives as the scheme alone.
NoHeader == <<>>
Header(scheme, credentials) ==
    IF credentials = "" THEN <<scheme>> ELSE <<scheme, " ", credentials>>

\* strings.HasPrefix(auth, "Bearer ") and strings.TrimPrefix(auth, "Bearer ")
HasPrefixBearer(auth) == Len(auth) >= 2 /\ auth[1] = "Bearer" /\ auth[2] = " "
TrimPrefixBearer(auth) ==
    IF ~HasPrefixBearer(auth) THEN auth
    ELSE IF Len(auth) >= 3 THEN auth[3] ELSE ""

\* provider.ResourceScopes(req.URL): the scopes a resource requires.
ResourceScopes(path) ==
    IF path = "/r" THEN <<[ID |-> <<"r">>]>>
    ELSE IF path = "/rw" THEN <<[ID |-> <<"r", "w">>]>>
    ELSE IF path = "/r+w" THEN <<[ID |-> <<"r">>], [ID |-> <<"w">>]>>
    ELSE <<>>

\* render.Unauthorized: the status, and the error if there is one.
Unauthorized(status, err) ==
    [NoResponse EXCEPT !.kind = "unauthorized", !.status = status, !.error = err]

\* next.ServeHTTP(w, req): the protected resource answers.
Downstream == [NoResponse EXCEPT !.kind = "downstream", !.status = 200]

\* AuthzHandler without the test of the header's scheme.
AuthzHandlerAnyScheme(P, r) ==
    LET auth == r.auth
        token == IF auth = NoHeader THEN r.access_token
                 ELSE IF Len(auth) >= 3 THEN auth[3] ELSE ""
        tokenInfo == TokenInfo(P, token)
        resourceScopes == StringifyScopes(ResourceScopes(r.path))
    IN  IF token = ""
        THEN Out(P, Unauthorized(401, NoError))
        ELSE IF r.fault = "TokenInfo"
        THEN Out(P, Unauthorized(401, ErrServerError("")))
        ELSE IF tokenInfo.Status = TokenExpired \/ tokenInfo.Status = TokenRevoked
        THEN Out(P, Unauthorized(401, ErrInvalidToken))
        ELSE IF r.fault = "ResourceScopes"
        THEN Out(P, Unauthorized(401, ErrServerError("")))
        ELSE IF \E i \in DOMAIN tokenInfo.Scope :
                    ~Contains(resourceScopes, tokenInfo.Scope[i].ID)
        THEN Out(P, Unauthorized(403, ErrInsufficientScope))
        ELSE Out(P, Downstream)

\* AuthzHandler: the bearer token comes from the Authorization header or,
\* without one, from the form; the first scope of the token that is not a
\* substring of the resource's scopes ends the request with 403.
AuthzHandler(P, r) ==
    LET auth == r.auth
        token == IF auth = NoHeader THEN r.access_token ELSE TrimPrefixBearer(auth)
        tokenInfo == TokenInfo(P, token)
        resourceScopes == StringifyScopes(ResourceScopes(r.path))
    IN  IF auth # NoHeader /\ ~HasPrefixBearer(auth)
        THEN Out(P, Unauthorized(401, ErrUnsupportedTokenType))
        ELSE IF token = ""
        THEN Out(P, Unauthorized(401, NoError))
        ELSE IF r.fault = "TokenInfo"
        THEN Out(P, Unauthorized(401, ErrServerError("")))
        ELSE IF tokenInfo.Status = TokenExpired \/ tokenInfo.Status = TokenRevoked
        THEN Out(P, Unauthorized(401, ErrInvalidToken))
        ELSE IF r.fault = "ResourceScopes"
        THEN Out(P, Unauthorized(401, ErrServerError("")))
        ELSE IF \E i \in DOMAIN tokenInfo.Scope :
                    ~Contains(resourceScopes, tokenInfo.Scope[i].ID)
        THEN Out(P, Unauthorized(403, ErrInsufficientScope))
        ELSE Out(P, Downstream)

(***************************************************************************)
(* Handler: the OAuth2 endpoints in front of the next handler              *)
(***************************************************************************)
\* A URL path in its pieces, so that a prefix of the text is a prefix of the
\* sequence: "/oauth2/tokens" is <<"/", "oauth2", "/", "tokens">>.
AuthzPath == <<"/", "oauth2", "/", "authzs">>
TokenPath == <<"/", "oauth2", "/", "tokens">>
OAuth2Path == <<"/", "oauth2">>

\* strings.HasPrefix(s, prefix) and path.Base(s)
HasPrefix(s, prefix) ==
    Len(prefix) <= Len(s) /\ SubSeq(s, 1, Len(prefix)) = prefix
Base(s) == s[Len(s)]

\* The configuration Handler builds from its options: the defaults, or what
\* SetAuthzEndpoint and SetTokenEndpoint were given.  It is kept with the provider.
Configured(P, authzEndpoint, tokenEndpoint) ==
    [x \in DOMAIN P \cup {"authzEndpoint", "tokenEndpoint"} |->
        IF x = "authzEndpoint" THEN authzEndpoint
        ELSE IF x = "tokenEndpoint" THEN tokenEndpoint
        ELSE P[x]]

\* The handler of each method of the two endpoints.
AuthzHandlers == ("GET" :> "CreateGrant") @@ ("POST" :> "CreateGrant")
TokenHandlers == ("POST" :> "IssueToken") @@ ("DELETE" :> "RevokeToken")

\* The registry: a map literal, in which the entry of the token endpoint
\* replaces that of the authorization endpoint when the two paths are equal.
Registry(P) ==
    (P.tokenEndpoint :> TokenHandlers) @@ (P.authzEndpoint :> AuthzHandlers)

\* handlerFn(w, req, cfg)
Call(handlerFn, P, r) ==
    CASE handlerFn = "CreateGrant" -> CreateGrant(P, r)
      [] handlerFn = "IssueToken" -> IssueToken(P, r)
      [] handlerFn = "RevokeToken" -> RevokeTokenHandler(P, r)

\* w.WriteHeader(http.StatusMethodNotAllowed); w.Write([]byte("Method Not Allowed"))
MethodNotAllowed ==
    [NoResponse EXCEPT !.kind = "text", !.status = 405, !.body = "Method Not Allowed"]

\* What Handler does once the loop is at an endpoint that is a prefix of the path.
Serve(P, r, endpoint) ==
    LET handlers == Registry(P)[endpoint]
    IN  IF r.method \in DOMAIN handlers
        THEN Call(handlers[r.method], P, r)
        ELSE Out(P, MethodNotAllowed)

\* Handler: the responses the request may get.  The loop ranges over a Go
\* map, whose order of iteration is not specified: the first endpoint it
\* finds that is a prefix of the path serves the request, and that may be
\* any endpoint that is a prefix of the path.
Handler(P, r) ==
    LET matching == {e \in DOMAIN Registry(P) : HasPrefix(r.path, e)}
    IN  IF matching = {} THEN {Out(P, Downstream)}
        ELSE {Serve(P, r, e) : e \in matching}

(***************************************************************************)
(* Requests                                                                *)
(***************************************************************************)
\* Scope strings a client may send: none, "r", "rw" and "r w".
ScopeInputs == {<<>>, <<"r">>, <<"r", "w">>, <<"r", " ", "w">>}

\* redirect_uri strings a client may send: none, the client's URL as the
\* provider now gives it, the registered text, the same with an upper-case
\* scheme, an attacker's URL with and without TLS, and a malformed one.
RawURI(wellformed, scheme, host) ==
    [wellformed |-> wellformed, scheme |-> scheme, host |-> host,
     query |-> NoValues, fragment |-> <<>>]
RedirectInputs(P) ==
    {Raw(ZeroURL), Raw(P.ClientURL), Raw(RegisteredURL),
     RawURI(TRUE, "HTTPS", RegisteredURL.Host),
     RawURI(TRUE, "http", "attacker.com/callback"),
     RawURI(TRUE, "https", "attacker.com/callback"),
     RawURI(FALSE, "", "%zz")}

\* Every value uuid.NewV4 has generated so far.
Generated(P) == {NewV4(i) : i \in 1..P.uuid}

NoRequest == [endpoint |-> "none", method |-> "", fault |-> "none"]

AuthzRequest(method, clientID, state, redirectURI, scope, responseType, fault) ==
    [endpoint |-> "authzs", method |-> method, client_id |-> clientID,
     state |-> state, redirect_uri |-> redirectURI, scope |-> scope,
     response_type |-> responseType, fault |-> fault]

\* The consent POST of a client asking for an authorization code, which
\* sends what it registered as the provider now gives it.
ConsentRequests(P) ==
    {AuthzRequest("POST", "test_client_id", "s1", Raw(P.ClientURL),
                  <<"r", " ", "w">>, "code", "none")}

\* Complete requests of the provider's client for a code and for a token,
\* with its URL as registered and as the provider now gives it, while each
\* of the provider's calls may fail.
ConsentFlowRequests(P) ==
    {AuthzRequest(m, "test_client_id", "s1", u, <<"r", " ", "w">>, rt, fault) :
        m \in {"GET", "POST"}, u \in {Raw(P.ClientURL), Raw(RegisteredURL)},
        rt \in {"code", "token"},
        fault \in {"none", "ClientInfo", "ScopesInfo", "GenGrant", "GenToken"}}

\* Every combination of form values of an authorization request, and the
\* requests of a client id for which ClientInfo returns the zero Client.
AuthzRequests(P) ==
    {AuthzRequest(m, c, s, u, sc, rt, "none") :
        m \in {"GET", "POST"}, c \in {"", "test_client_id"}, s \in {"", "s1"},
        u \in RedirectInputs(P), sc \in {<<>>, <<"r", " ", "w">>},
        rt \in {"code", "token", "id_token"}}
    \cup {AuthzRequest(m, "unknown", "s1", u, <<"r", " ", "w">>, "code", "ClientInfoNotFound") :
            m \in {"GET", "POST"}, u \in RedirectInputs(P)}

\* Every combination of form values of an authorization request with each
\* failure of the provider calls authCodeGrant1 makes.
LadderRequests(P) ==
    {AuthzRequest(m, c, s, u, sc, rt, f) :
        m \in {"GET", "POST"}, c \in {"", "test_client_id"}, s \in {"", "s1"},
        u \in {Raw(ZeroURL), Raw(P.ClientURL), RawURI(TRUE, "http", RegisteredURL.Host),
                RawURI(TRUE, "https", "attacker.com/callback"), RawURI(FALSE, "", "%zz")},
        sc \in {<<>>, <<"r", " ", "w">>}, rt \in {"code", "id_token"},
        f \in {"none", "ClientInfo", "ClientInfoNotFound", "ScopesInfo"}}

\* Authorization requests that differ in their URL: a GET carries its form
\* values in the URL, a POST in its body.
LoginRequests ==
    {AuthzRequest(m, "test_client_id", s, Raw(RegisteredURL), <<"r", " ", "w">>, "code", "none") :
        m \in {"GET", "POST"}, s \in {"s1", "s2"}}

\* The paths of requests to Handler: the default endpoints, a token of the
\* token endpoint, their common parent, and a path of the application.
HandlerPaths(P) ==
    {AuthzPath, TokenPath, OAuth2Path, <<"/", "api", "/", "things">>}
    \cup {TokenPath \o <<"/", v>> : v \in DOMAIN P.AccessTokens \cup {"unknown"}}

\* A request to Handler: a complete authorization form and the credentials
\* of the provider's client asking for a token of its own, whichever
\* endpoint reads them.
HandlerRequests(P) ==
    {[endpoint |-> "handler", method |-> m, path |-> path,
      client_id |-> "test_client_id", state |-> "s1",
      redirect_uri |-> Raw(P.ClientURL), scope |-> <<"r", " ", "w">>,
      response_type |-> "code",
      basicAuth |-> TRUE, username |-> "test_client_id", password |-> "test_client_id",
      grant_type |-> "client_credentials", code |-> "", refresh_token |-> "",
      token |-> Base(path), fault |-> "none"] :
        m \in {"GET", "POST", "DELETE", "PUT"}, path \in HandlerPaths(P)}

\* HTTP Basic credentials: the provider's client, and client boo.
Owner == [basicAuth |-> TRUE, username |-> "test_client_id", password |-> "test_client_id"]
Boo == [basicAuth |-> TRUE, username |-> "boo", password |-> "boo"]
Credentials == {Owner, Boo}
NoCredentials == [basicAuth |-> FALSE, username |-> "", password |-> ""]

\* The ways client authentication turns a request down: no Authorization
\* header, or credentials for which AuthenticateClient returns an error.
Rejected ==
    {[c |-> NoCredentials, fault |-> "none"]}
    \cup {[c |-> c, fault |-> "AuthenticateClient"] : c \in Credentials}

GrantTypes == {"authorization_code", "password", "client_credentials",
               "refresh_token", "implicit"}

TokenRequest(c, grantType, code, refresh, scope, fault) ==
    [endpoint |-> "tokens", method |-> "POST", basicAuth |-> c.basicAuth,
     username |-> c.username, password |-> c.password, grant_type |-> grantType,
     code |-> code, refresh_token |-> refresh, scope |-> scope, fault |-> fault]

DeleteRequest(c, token, fault) ==
    [endpoint |-> "tokens", method |-> "DELETE", basicAuth |-> c.basicAuth,
     username |-> c.username, password |-> c.password, token |-> token,
     fault |-> fault]

\* Token values a client may present: one never issued, and every token value issued.
Presentable(P) == {"unknown"} \cup (Generated(P) \ DOMAIN P.GrantCodes)

\* Requests that fail client authentication, for every grant type and with
\* the codes and tokens that exist.
UnauthenticatedTokenRequests(P) ==
    {TokenRequest(x.c, gt, "", "", <<>>, x.fault) : x \in Rejected, gt \in GrantTypes}
    \cup {TokenRequest(x.c, "authorization_code", code, "", <<>>, x.fault) :
            x \in Rejected, code \in DOMAIN P.GrantCodes}
    \cup {TokenRequest(x.c, "refresh_token", "", t, <<>>, x.fault) :
            x \in Rejected, t \in Presentable(P)}

\* authorization_code requests, with the code the handler reads.
ExchangeRequests(P) ==
    {TokenRequest(c, "authorization_code", code, "", <<>>, "none") :
        c \in Credentials, code \in {"", "unknown"} \cup DOMAIN P.GrantCodes}

\* The token requests of the authorization code flow.
TokenRequests(P) ==
    UnauthenticatedTokenRequests(P)
    \cup ExchangeRequests(P)
    \cup {TokenRequest(Owner, "implicit", "", "", <<>>, "none")}

\* password and client_credentials requests of the provider's client.
PasswordRequests ==
    {TokenRequest(Owner, "password", "", "", scope, "none") :
        scope \in {<<"r", "w">>, <<"r", " ", "w">>}}
    \cup {TokenRequest(Owner, "client_credentials", "", "", <<"r", "w">>, "none")}

\* refresh_token requests with every token value issued and every scope.
RefreshRequests(P) ==
    {TokenRequest(c, "refresh_token", "", t, scope, "none") :
        c \in Credentials, t \in Presentable(P), scope \in ScopeInputs}

RevokeRequests(P) ==
    {DeleteRequest(x.c, t, x.fault) : x \in Rejected, t \in Presentable(P)}
    \cup {DeleteRequest(c, t, "none") : c \in Credentials, t \in Presentable(P)}

\* password requests of the provider's client for each scope.
ScopedRequests ==
    {TokenRequest(Owner, "password", "", "", scope, "none") :
        scope \in ScopeInputs \ {<<>>}}

\* DELETE requests of the provider's client for the access tokens in use.
OwnerRevokeRequests(P) ==
    {DeleteRequest(Owner, t, "none") : t \in DOMAIN P.AccessTokens}

\* The resources behind the gate: one for each answer of ResourceScopes.
Paths == {"/r", "/rw", "/r+w", "/"}

ResourceRequest(auth, accessToken, path, fault) ==
    [endpoint |-> "resource", method |-> "GET", auth |-> auth,
     access_token |-> accessToken, path |-> path, fault |-> fault]

\* Requests for a resource: with every token value in the Authorization
\* header or in the form, without any, with a scheme that is not Bearer, and
\* with a failing provider.
ResourceRequests(P) ==
    {ResourceRequest(Header("Bearer", t), "", path, fault) :
        t \in Presentable(P) \cup {""}, path \in Paths,
        fault \in {"none", "TokenInfo", "ResourceScopes"}}
    \cup {ResourceRequest(NoHeader, t, path, "none") :
            t \in Presentable(P) \cup {""}, path \in Paths}
    \cup {ResourceRequest(Header(scheme, t), t, "/r", fault) :
            scheme \in {"Basic", "bearer"}, t \in Presentable(P),
            fault \in {"none", "TokenInfo"}}
    \cup {ResourceRequest(NoHeader, "", "/r", "TokenInfo")}

\* Request r, for which the provider's failing call returns the message t.
WithErrorText(r, t) ==
    [x \in (DOMAIN r) \cup {"errText"} |-> IF x = "errText" THEN t ELSE r[x]]

\* Requests to the token endpoint during which one call of the provider
\* fails, for every call of each handler and every message.
FaultyRequests(P) ==
    {WithErrorText(r, t) : t \in ErrorTexts, r \in
        {TokenRequest(Owner, gt, "", "", <<"r">>, "AuthenticateClient") : gt \in GrantTypes}
        \cup {TokenRequest(Owner, "authorization_code", code, "", <<>>, fault) :
                code \in DOMAIN P.GrantCodes, fault \in {"GrantInfo", "GenToken"}}
        \cup {TokenRequest(Owner, gt, "", "", <<"r">>, fault) :
                gt \in {"password", "client_credentials"},
                fault \in {"ScopesInfo", "GenToken"}}
        \cup {TokenRequest(Owner, "password", "", "", <<"r">>, "AuthenticateUser")}
        \cup {TokenRequest(Owner, "refresh_token", "", v, <<"r">>, fault) :
                v \in Presentable(P),
                fault \in {"TokenInfo", "ScopesInfo", "RefreshToken"}}
        \cup {DeleteRequest(Owner, v, fault) :
                v \in Presentable(P),
                fault \in {"AuthenticateClient", "TokenInfo", "RevokeToken"}}}

\* refresh_token requests of the provider's client for the scope of the
\* token, with each refresh token it holds.
OwnerRefreshRequests(P) ==
    {TokenRequest(Owner, "refresh_token", "", t, <<>>, "none") :
        t \in DOMAIN P.RefreshTokens}

(***************************************************************************)
(* The state machine                                                       *)
(***************************************************************************)
Idle == [busy |-> FALSE]

NoHistory == [exchanged |-> <<>>, rotated |-> {}, revoked |-> <<>>]

\* What the response to request r, which found the provider as P, adds to
\* what is established: which clients exchanged each code for a token, which
\* refresh tokens were refreshed, and the token the previous request revoked
\* for which client.
Record(h, P, r, out) ==
    IF out.status # 200 \/ r.endpoint # "tokens" THEN [h EXCEPT !.revoked = <<>>]
    ELSE IF r.method = "DELETE"
    THEN [h EXCEPT !.revoked = <<r.username, r.token>>]
    ELSE IF r.grant_type = "authorization_code"
    THEN [h EXCEPT !.exchanged = MapPut(@, r.code, Append(MapGet(@, r.code, <<>>), r.username)),
                   !.revoked = <<>>]
    ELSE IF r.grant_type = "refresh_token" /\ r.refresh_token \in DOMAIN P.RefreshTokens
    THEN [h EXCEPT !.rotated = @ \cup {r.refresh_token}, !.revoked = <<>>]
    ELSE [h EXCEPT !.revoked = <<>>]

Init ==
    /\ p \in {NewProvider(a) : a \in BOOLEAN}
    /\ pre = p
    /\ req = NoRequest
    /\ resp = NoResponse
    /\ inflight = [w \in Workers |-> Idle]
    /\ hist = NoHistory

\* Handler is built with the default endpoints or with endpoints set by its options.
InitHandler ==
    /\ p \in {Configured(NewProvider(a), authz, token) :
                a \in BOOLEAN, authz \in {AuthzPath, OAuth2Path},
                token \in {TokenPath, OAuth2Path}}
    /\ pre = p
    /\ req = NoRequest
    /\ resp = NoResponse
    /\ inflight = [w \in Workers |-> Idle]
    /\ hist = NoHistory

\* The response to request r leaves the handler: out.P is the provider after
\* it.  max caps the values uuid.NewV4 has generated.
Respond(r, out, max) ==
    /\ req = NoRequest
    /\ out.P.uuid <= max
    /\ p' = out.P
    /\ pre' = p
    /\ req' = r
    /\ resp' = out.resp
    /\ hist' = Record(hist, p, r, out.resp)

\* The authorization endpoint, for the requests of a well-behaved client.
Consent ==
    \E r \in ConsentRequests(p) :
        /\ Respond(r, CreateGrant(p, r), MaxUUID)
        /\ UNCHANGED inflight

\* The authorization endpoint, for every request.
Authorize ==
    \E r \in AuthzRequests(p) :
        /\ Respond(r, CreateGrant(p, r), MaxUUIDAuthz)
        /\ UNCHANGED inflight

\* The authorization endpoint, for every request and a provider whose
\* ClientInfo and ScopesInfo may fail.
Validate ==
    \E r \in LadderRequests(p) :
        /\ Respond(r, CreateGrant(p, r), MaxUUIDLadder)
        /\ UNCHANGED inflight

\* The authorization endpoint, for complete requests and a provider that may fail.
ConsentFlow ==
    \E r \in ConsentFlowRequests(p) :
        /\ Respond(r, CreateGrant(p, r), MaxUUIDConsent)
        /\ UNCHANGED inflight

\* POST to the token endpoint in the authorization code flow.
Token ==
    \E r \in TokenRequests(p) :
        /\ Respond(r, IssueToken(p, r), MaxUUID)
        /\ UNCHANGED inflight

\* POST to the token endpoint with grant_type password or client_credentials.
Password ==
    \E r \in PasswordRequests :
        /\ Respond(r, IssueToken(p, r), MaxUUID)
        /\ UNCHANGED inflight

\* POST to the token endpoint with grant_type refresh_token.
Refresh ==
    \E r \in RefreshRequests(p) :
        /\ Respond(r, IssueToken(p, r), MaxUUID)
        /\ UNCHANGED inflight

\* DELETE to the token endpoint.
Revoke ==
    \E r \in RevokeRequests(p) :
        /\ Respond(r, RevokeTokenHandler(p, r), MaxUUID)
        /\ UNCHANGED inflight

\* POST to the token endpoint with grant_type password, for tokens of each scope.
Grant ==
    \E r \in ScopedRequests :
        /\ Respond(r, IssueToken(p, r), MaxUUIDGate)
        /\ UNCHANGED inflight

\* DELETE to the token endpoint by the client a token was issued to.
OwnerRevoke ==
    \E r \in OwnerRevokeRequests(p) :
        /\ Respond(r, RevokeTokenHandler(p, r), MaxUUIDGate)
        /\ UNCHANGED inflight

\* The lifetime of an access token ends: the provider reports it as expired.
Expire ==
    /\ req = NoRequest
    /\ \E v \in DOMAIN p.AccessTokens :
         /\ p.AccessTokens[v].Status = ""
         /\ p' = [p EXCEPT !.AccessTokens[v].Status = TokenExpired]
    /\ pre' = p'
    /\ UNCHANGED <<req, resp, hist, inflight>>

\* A request for a protected resource passes through the gate.
Resource ==
    \E r \in ResourceRequests(p) :
        /\ Respond(r, AuthzHandler(p, r), MaxUUIDGate)
        /\ UNCHANGED inflight

\* The handler of the token endpoint for request r.
TokenEndpoint(P, r) ==
    IF r.method = "DELETE" THEN RevokeTokenHandler(P, r) ELSE IssueToken(P, r)

\* A request to the token endpoint during which a call of the provider fails.
Faulty ==
    \E r \in FaultyRequests(p) :
        /\ Respond(r, TokenEndpoint(p, r), MaxUUID)
        /\ UNCHANGED inflight

\* POST to the token endpoint with grant_type refresh_token, by the client
\* the refresh token was issued to.
OwnerRefresh ==
    \E r \in OwnerRefreshRequests(p) :
        /\ Respond(r, IssueToken(p, r), MaxUUID)
        /\ UNCHANGED inflight

\* Worker w takes an authorization_code request and runs IssueToken up to
\* authCodeGrant2's call of GenToken.  net/http serves each request on its own
\* goroutine and neither the handler nor the provider takes a lock, so another
\* worker may run between this step and FinishExchange.
BeginExchange(w) ==
    /\ req = NoRequest
    /\ ~inflight[w].busy
    /\ \E r \in ExchangeRequests(p) :
         LET cinfo == AuthenticateClient(p, r.username, r.password)
             checked == authCodeGrant2Checks(p, r, cinfo)
         IN  IF checked # NoResponse
             THEN /\ Respond(r, Out(p, checked), MaxUUID)
                  /\ UNCHANGED inflight
             ELSE /\ inflight' = [inflight EXCEPT ![w] =
                        [busy |-> TRUE, r |-> r, cinfo |-> cinfo,
                         grantCode |-> GrantInfo(p, r.code)]]
                  /\ UNCHANGED <<p, pre, req, resp, hist>>

\* Worker w calls GenToken for the grant it read and sends the response.
FinishExchange(w) ==
    /\ inflight[w].busy
    /\ Respond(inflight[w].r,
               authCodeGrant2Issue(p, inflight[w].r, inflight[w].cinfo,
                                   inflight[w].grantCode),
               MaxUUID)
    /\ inflight' = [inflight EXCEPT ![w] = Idle]

\* CreateGrant for a resource owner who is not logged in, up to its write of
\* u.RawQuery, where u is the *url.URL of the configuration: cfg is copied
\* for each request, the URL its loginURL.url points to is not.  query.Set
\* replaces the one key the URL ever holds, so the read of u.Query() before
\* the write does not show in what is written.
LoginWrite(P, r) ==
    [P EXCEPT !.LoginURL = [P.LoginURL EXCEPT
                               !.RawQuery = ValuesSet(@, "redirect_to", RequestURL(r))]]

\* http.Redirect(w, req, u.String(), http.StatusFound) for that URL as it is now.
LoginRedirect(P) == Out(P, Redirect(P.LoginURL))

\* Worker w takes an authorization request.  For a resource owner who is
\* logged in it runs CreateGrant; for one who is not it writes the query of
\* the login URL.  No lock is held, so another worker may run before
\* FinishLogin.
BeginLogin(w) ==
    /\ req = NoRequest
    /\ ~inflight[w].busy
    /\ \E r \in LoginRequests :
         IF IsUserAuthenticated(p)
         THEN /\ Respond(r, CreateGrant(p, r), MaxUUIDAuthz)
              /\ UNCHANGED inflight
         ELSE /\ p' = LoginWrite(p, r)
              /\ inflight' = [inflight EXCEPT ![w] = [busy |-> TRUE, r |-> r]]
              /\ UNCHANGED <<pre, req, resp, hist>>

\* Worker w reads the login URL and sends the redirect.
FinishLogin(w) ==
    /\ inflight[w].busy
    /\ Respond(inflight[w].r, LoginRedirect(p), MaxUUIDAuthz)
    /\ inflight' = [inflight EXCEPT ![w] = Idle]

\* A request arrives at Handler.
Dispatch ==
    \E r \in HandlerRequests(p) :
        \E out \in Handler(p, r) :
            /\ Respond(r, out, MaxUUIDAuthz)
            /\ UNCHANGED inflight

\* The response has been sent; the handler returns and the next request may arrive.
Return ==
    /\ req # NoRequest
    /\ req' = NoRequest
    /\ resp' = NoResponse
    /\ pre' = p
    /\ UNCHANGED <<p, hist, inflight>>

Next == Consent \/ Token \/ Refresh \/ Revoke \/ Return

NextAuthz == Authorize \/ Return

NextRefresh == Password \/ Refresh \/ Return

NextConc ==
    \/ Consent
    \/ \E w \in Workers : BeginExchange(w)
    \/ \E w \in Workers : FinishExchange(w)
    \/ Return

\* The authorization code flow with refreshes and revocations, one request at a time.
NextConsent == ConsentFlow \/ Return

NextIssue == Consent \/ Token \/ Password \/ Return

NextFaults == Consent \/ Token \/ Faulty \/ Return

NextGrants == Consent \/ Token \/ Password \/ OwnerRefresh \/ Return

NextLadder == Validate \/ Return

NextLogin ==
    \/ \E w \in Workers : BeginLogin(w)
    \/ \E w \in Workers : FinishLogin(w)
    \/ Return

NextTokens == Consent \/ Token \/ Refresh \/ Revoke \/ Faulty \/ Return

NextHandler == Dispatch \/ Return

NextGate == Grant \/ OwnerRevoke \/ Expire \/ Resource \/ Return

Spec == Init /\ [][Next]_vars

\* The authorization endpoint alone, over every request.
SpecAuthz == Init /\ [][NextAuthz]_vars

\* Tokens of the password and client_credentials grants, and their refreshes.
SpecRefresh == Init /\ [][NextRefresh]_vars

\* Two workers exchanging authorization codes at the same time.
SpecConc == Init /\ [][NextConc]_vars

\* Consent is asked for and given again and again, with a provider that may fail.
SpecConsent == Init /\ [][NextConsent]_vars

\* Tokens are issued by each grant type of the token endpoint.
SpecIssue == Init /\ [][NextIssue]_vars

\* Codes are exchanged while calls of the provider fail.
SpecFaults == Init /\ [][NextFaults]_vars

\* Authorization requests of every shape meet each failure of ClientInfo and ScopesInfo.
SpecLadder == Init /\ [][NextLadder]_vars

\* Authorization requests are served at the same time, with and without a login.
SpecLogin == Init /\ [][NextLogin]_vars

\* The token endpoint answers every request, with a provider whose calls may fail.
SpecTokens == Init /\ [][NextTokens]_vars

\* Handler with each configuration of its endpoints serves requests of every path and method.
SpecHandler == InitHandler /\ [][NextHandler]_vars

\* Tokens are issued by each grant type and refreshed.
SpecGrants == Init /\ [][NextGrants]_vars

\* Tokens of each scope are issued, revoked and expire, and are presented at the gate.
SpecGate == Init /\ [][NextGate]_vars

(***************************************************************************)
(* Properties                                                              *)
(***************************************************************************)
IsAuthz(r) == r.endpoint = "authzs"
IsTokenPost(r) == r.endpoint = "tokens" /\ r.method = "POST"
IsExchange(r) == IsTokenPost(r) /\ r.grant_type = "authorization_code"
IsRefresh(r) == IsTokenPost(r) /\ r.grant_type = "refresh_token"
IsDelete(r) == r.endpoint = "tokens" /\ r.method = "DELETE"

\* The request carries Basic credentials and the provider accepts them.
Accepted(r) == r.basicAuth /\ r.fault = "none"

Range(s) == {s[i] : i \in DOMAIN s}

\* Code c names a grant of P that is neither used, revoked nor expired.
GrantActive(P, c) ==
    /\ c \in DOMAIN P.GrantCodes
    /\ ~P.GrantCodes[c].IsUsed
    /\ ~P.GrantCodes[c].IsRevoked
    /\ ~P.GrantCodes[c].IsExpired

\* Response x is 400 invalid_grant with description d and carries no token.
InvalidGrant(x, d) ==
    /\ x.kind = "json"
    /\ x.status = 400
    /\ x.error = WithDescription(ErrInvalidGrant, d)
    /\ x.token = ZeroToken

\* ---- C1 ----------------------------------------------------------------
\* C1: once a client has exchanged a code for a token (200), every later
\* authorization_code request with that code and that client's credentials is
\* answered 400 invalid_grant "Grant code was revoked, expired or already
\* used.", carries no token and leaves the provider as it was.
C1_ReplayRejected ==
    [][(/\ IsExchange(req')
        /\ Accepted(req')
        /\ req'.code \in DOMAIN hist.exchanged
        /\ req'.username \in Range(hist.exchanged[req'.code]))
       => (/\ InvalidGrant(resp', "Grant code was revoked, expired or already used.")
           /\ p' = p)]_vars

\* A code exchanged before is presented again by the client that exchanged it.
C1_Witness ==
    /\ IsExchange(req)
    /\ Accepted(req)
    /\ req.code \in DOMAIN hist.exchanged
    /\ req.username \in Range(hist.exchanged[req.code])
    /\ resp.status = 400
    /\ pre.GrantCodes[req.code].IsUsed

\* ---- C2 ----------------------------------------------------------------
\* C2: whatever the interleaving of two authorization_code requests with the
\* same active code, at most one of them is answered 200 with a token.
C2_AtMostOneExchange ==
    \A c \in DOMAIN hist.exchanged : Len(hist.exchanged[c]) <= 1

\* Both workers were answered 200 with a token for the same code.
C2_Witness ==
    \E c \in DOMAIN hist.exchanged :
        /\ Len(hist.exchanged[c]) = 2
        /\ resp.status = 200

\* ---- C3 ----------------------------------------------------------------
\* The redirect_uri of request r passed validation against provider P: it
\* parses, its scheme is https and its text equals that of the client's URL.
Validated(P, r) ==
    /\ ParseOK(r.redirect_uri)
    /\ Parse(r.redirect_uri).Scheme = "https"
    /\ String(Parse(r.redirect_uri)) = String(P.ClientURL)

\* The client id of request r is missing, or unknown to the provider.
ClientUnknown(r) == r.client_id = "" \/ r.fault = "ClientInfoNotFound"

C4_RefreshTokenInvalidated ==
    [][(/\ IsRefresh(req')
        /\ Accepted(req')
        /\ req'.refresh_token \in hist.rotated)
       => (resp'.status # 200 /\ resp'.token = ZeroToken)]_vars

\* A refresh token that was refreshed still resolves to a token.
C4_Witness ==
    \E r \in hist.rotated :
        /\ TokenInfo(p, r) # ZeroToken
        /\ TokenInfo(p, r).RefreshToken = r

\* ---- C5 ----------------------------------------------------------------
\* The scope ids of a sequence of scopes.
ScopeIDs(scopes) == {scopes[i].ID : i \in DOMAIN scopes}

\* C5: every refresh_token request answered 200 yields a token whose scope ids
\* all are members of the scope ids of the stored token.
C5_RefreshNeverWidens ==
    (IsRefresh(req) /\ resp.status = 200) =>
        ScopeIDs(resp.token.Scope) \subseteq
            ScopeIDs(TokenInfo(pre, req.refresh_token).Scope)

\* A token of scope "rw" is refreshed with scope "r".
C5_Witness ==
    /\ IsRefresh(req)
    /\ ScopeIDs(TokenInfo(pre, req.refresh_token).Scope) = {<<"r", "w">>}
    /\ req.scope = <<"r">>
    /\ resp.status = 200

\* ---- C6 ----------------------------------------------------------------
\* C6: a grant that is used, expired or revoked is not active after any
\* request, and an authorization_code request presenting its code is never
\* answered 200.
C6_GrantNeverActiveAgain ==
    [][/\ \A c \in DOMAIN p.GrantCodes : ~GrantActive(p, c) => ~GrantActive(p', c)
       /\ (/\ IsExchange(req')
           /\ req'.code \in DOMAIN p.GrantCodes
           /\ ~GrantActive(p, req'.code)) => resp'.status # 200]_vars

\* A refresh is answered 200 while a used grant exists.
C6_Witness ==
    /\ IsRefresh(req)
    /\ resp.status = 200
    /\ \E c \in DOMAIN pre.GrantCodes : pre.GrantCodes[c].IsUsed /\ ~GrantActive(p, c)

\* ---- C7 ----------------------------------------------------------------
\* C7: a POST or DELETE to the token endpoint without Basic credentials, or
\* with credentials the provider rejects, is answered 400 unauthorized_client
\* whatever the grant_type, and the provider's grants and tokens are unchanged.
C7_ClientAuthRequired ==
    ((IsTokenPost(req) \/ IsDelete(req))
        /\ (~req.basicAuth \/ req.fault = "AuthenticateClient")) =>
        /\ resp = JSONError(400, ErrUnauthorizedClient)
        /\ p = pre

\* A request without credentials presents an active code.
C7_Witness ==
    /\ IsExchange(req)
    /\ ~req.basicAuth
    /\ GrantActive(pre, req.code)
    /\ resp.status = 400

\* ---- C8 ----------------------------------------------------------------
\* C8: an authorization_code request whose code names a grant issued to
\* another client than the authenticated one is answered 400 invalid_grant,
\* carries no token and changes nothing.
C8_CodeBoundToClient ==
    (/\ IsExchange(req)
     /\ Accepted(req)
     /\ req.code \in DOMAIN pre.GrantCodes
     /\ pre.GrantCodes[req.code].ClientID
            # AuthenticateClient(pre, req.username, req.password).ID) =>
        /\ resp.kind = "json"
        /\ resp.status = 400
        /\ resp.error.Code = ErrInvalidGrant.Code
        /\ resp.token = ZeroToken
        /\ p = pre

\* Client boo presents an active code of client test_client_id.
C8_Witness ==
    /\ IsExchange(req)
    /\ Accepted(req)
    /\ req.username = "boo"
    /\ GrantActive(pre, req.code)
    /\ pre.GrantCodes[req.code].ClientID = "test_client_id"
    /\ resp.status = 400

\* ---- C9 ----------------------------------------------------------------
\* The URL of the client authenticated by request r has the text of the URL
\* of the grant that r's code names in P.
RedirectMatches(P, r) ==
    LET cinfo == AuthenticateClient(P, r.username, r.password)
        grantCode == GrantInfo(P, r.code)
    IN  /\ cinfo.RedirectURL # NilPtr
        /\ grantCode.RedirectURL # NilPtr
        /\ String(Deref(P, cinfo.RedirectURL)) = String(Deref(P, grantCode.RedirectURL))

C10_RevokeIdempotent ==
    [][(/\ IsDelete(req')
        /\ Accepted(req')
        /\ hist.revoked = <<req'.username, req'.token>>)
       => (resp'.status = 200 /\ p' = p)]_vars

\* The owner's DELETE of a token value that was issued and is now absent.
C10_Witness ==
    /\ IsDelete(req)
    /\ Accepted(req)
    /\ req.username = "test_client_id"
    /\ req.token \in Generated(pre)
    /\ req.token \notin DOMAIN pre.GrantCodes \cup DOMAIN pre.AccessTokens
                          \cup DOMAIN pre.RefreshTokens
    /\ resp.status = 400

\* ---- C11 ---------------------------------------------------------------
\* C11: after a DELETE of value v was answered 200, v names no access token
\* and no refresh token, and a refresh_token request that presents v right
\* after is not answered with a token.
C11_RevokedEverywhere ==
    [][/\ (IsDelete(req') /\ Accepted(req') /\ resp'.status = 200) =>
             req'.token \notin DOMAIN p'.AccessTokens \cup DOMAIN p'.RefreshTokens
       /\ (/\ IsRefresh(req')
           /\ Accepted(req')
           /\ hist.revoked = <<req'.username, req'.refresh_token>>) =>
             (resp'.status # 200 /\ resp'.token = ZeroToken)]_vars

\* The DELETE of a refresh token value was answered 200 and the value still
\* names a refresh token.
C11_Witness ==
    /\ IsDelete(req)
    /\ Accepted(req)
    /\ resp.status = 200
    /\ req.token \in DOMAIN pre.RefreshTokens
    /\ req.token \in DOMAIN p.RefreshTokens

\* ---- C12 ---------------------------------------------------------------
\* Token value v names a token of P that belongs to another client than the
\* one request r authenticates as.
ForeignToken(P, r, v) ==
    /\ TokenInfo(P, v) # ZeroToken
    /\ TokenInfo(P, v).ClientID # AuthenticateClient(P, r.username, r.password).ID

\* C12: a DELETE by a client other than the one the stored token belongs to
\* is answered 400 ErrClientIDMismatch and leaves the provider, and so the
\* token, as it was.
C12_RevokeOnlyOwnToken ==
    (IsDelete(req) /\ Accepted(req) /\ ForeignToken(pre, req, req.token)) =>
        /\ resp = JSONError(400, ErrClientIDMismatch)
        /\ p = pre

\* Client boo asks to revoke an access token of test_client_id.
C12_Witness ==
    /\ IsDelete(req)
    /\ Accepted(req)
    /\ req.username = "boo"
    /\ req.token \in DOMAIN pre.AccessTokens
    /\ pre.AccessTokens[req.token].ClientID = "test_client_id"
    /\ resp.status = 400

\* ---- C13 ---------------------------------------------------------------
\* C13 as stated: a refresh_token request by a client other than the one the
\* stored token belongs to is answered 400 ErrClientIDMismatch, with no token
\* and no change of the provider.
C13_MismatchAlwaysReported ==
    (IsRefresh(req) /\ Accepted(req) /\ ForeignToken(pre, req, req.refresh_token)) =>
        /\ resp = JSONError(400, ErrClientIDMismatch)
        /\ p = pre

\* C13: a refresh_token request by a client other than the one the stored
\* token belongs to is answered 400 with no token and no change of the
\* provider: with ErrInvalidScope when it names a scope the scope check
\* rejects, with ErrClientIDMismatch otherwise.
C13_RefreshOnlyOwnToken ==
    (IsRefresh(req) /\ Accepted(req) /\ ForeignToken(pre, req, req.refresh_token)) =>
        /\ resp = JSONError(400,
                     IF req.scope # <<>>
                        /\ ~ScopesGranted(TokenInfo(pre, req.refresh_token).Scope,
                                          ScopesInfo(req.scope))
                     THEN ErrInvalidScope ELSE ErrClientIDMismatch)
        /\ p = pre

\* Client boo presents a refresh token of test_client_id.
C13_Witness ==
    /\ IsRefresh(req)
    /\ Accepted(req)
    /\ req.username = "boo"
    /\ req.refresh_token \in DOMAIN pre.RefreshTokens
    /\ pre.RefreshTokens[req.refresh_token].ClientID = "test_client_id"
    /\ resp = JSONError(400, ErrClientIDMismatch)

\* ---- C18 ---------------------------------------------------------------
\* C18: while the resource owner is not authenticated, every request to the
\* authorization endpoint, GET or POST, valid or not, is answered 302 to the
\* login URL whose redirect_to parameter is the URL of the request, and
\* nothing of the provider changes but the query of that login URL: no
\* client is looked up, no grant and no token is generated.
C18_LoginFirst ==
    (IsAuthz(req) /\ ~pre.isUserAuthenticated) =>
        /\ resp.status = 302
        /\ resp.location.Scheme = ConfiguredLoginURL.Scheme
        /\ resp.location.Host = ConfiguredLoginURL.Host
        /\ DOMAIN resp.location.RawQuery = {"redirect_to"}
        /\ resp.location.RawQuery["redirect_to"] = RequestURL(req)
        /\ resp.error = NoError
        /\ resp.data = ZeroAuthzData
        /\ p = [pre EXCEPT !.LoginURL = resp.location]

\* An otherwise valid consent POST was sent to the login page.
C18_Witness ==
    /\ IsAuthz(req)
    /\ ~pre.isUserAuthenticated
    /\ req.method = "POST"
    /\ req.client_id = "test_client_id"
    /\ Validated(pre, req)
    /\ req.state # ""
    /\ req.scope # <<>>
    /\ req.response_type = "code"
    /\ resp.status = 302

\* ---- C19 ---------------------------------------------------------------
\* Request r is valid but for its redirect_uri, which was not sent.
ValidWithoutRedirectURI(r) ==
    /\ IsAuthz(r)
    /\ ~ClientUnknown(r)
    /\ r.redirect_uri = Raw(ZeroURL)
    /\ r.state # ""
    /\ r.scope # <<>>
    /\ r.response_type \in {"code", "token"}

\* C19: a request of a known client that omits redirect_uri and is otherwise
\* valid is accepted with the client's registered URL as the redirect URL: a
\* GET gets the consent form without an error, a POST is redirected to the
\* client's URL.
C19_RegisteredURLByDefault ==
    (ValidWithoutRedirectURI(req) /\ pre.isUserAuthenticated) =>
        /\ resp.error = NoError
        /\ req.method = "GET" => (resp.kind = "html" /\ resp.data.Client = pre.Client)
        /\ req.method = "POST" =>
              /\ resp.status = 302
              /\ resp.location.Scheme = pre.ClientURL.Scheme
              /\ resp.location.Host = pre.ClientURL.Host

\* A valid request without redirect_uri was answered with the error page.
C19_Witness ==
    /\ ValidWithoutRedirectURI(req)
    /\ pre.isUserAuthenticated
    /\ resp = HTMLError(ErrRedirectURLInvalid)
    /\ p = pre

IsResource(r) == r.endpoint = "resource"

\* Request r presents value v as its bearer token, in the header or the form.
Bearing(r, v) ==
    /\ v # ""
    /\ \/ r.auth = Header("Bearer", v)
       \/ r.auth = NoHeader /\ r.access_token = v

\* Value v is an access token of P in use: neither expired nor revoked.
Active(P, v) == v \in DOMAIN P.AccessTokens /\ P.AccessTokens[v].Status = ""

\* Value v was issued as an access token and RevokeToken removed it.  (Here
\* no refresh token and no grant is ever removed.)
Revoked(P, v) ==
    v \in Generated(P) \ (DOMAIN P.AccessTokens \cup DOMAIN P.RefreshTokens
                             \cup DOMAIN P.GrantCodes)

\* Value v is an access token that expired or was revoked.
Dead(P, v) ==
    \/ Revoked(P, v)
    \/ /\ v \in DOMAIN P.AccessTokens
       /\ P.AccessTokens[v].Status \in {TokenExpired, TokenRevoked}

\* C14: a request bearing an access token that expired or was revoked is
\* answered 401 invalid_token, and the protected resource is not reached.
C14_DeadTokenRejected ==
    \A v \in Generated(pre) :
        (IsResource(req) /\ req.fault = "none" /\ Bearing(req, v) /\ Dead(pre, v)) =>
            resp = Unauthorized(401, ErrInvalidToken)

\* A request bearing a revoked access token reached the protected resource.
C14_Witness ==
    \E v \in Generated(pre) :
        /\ IsResource(req)
        /\ Bearing(req, v)
        /\ Revoked(pre, v)
        /\ resp = Downstream

\* ---- C15 ---------------------------------------------------------------
\* The scope ids of a list of scopes, and those the resource of r requires.
TokenScopeIDs(P, v) == ScopeIDs(P.AccessTokens[v].Scope)
RequiredScopeIDs(r) == ScopeIDs(ResourceScopes(r.path))

\* C15: a request bearing an active token reaches the protected resource if
\* and only if every scope id of the token is one of the scopes
\* ResourceScopes returns for the URL; otherwise it is answered 403
\* insufficient_scope.
C15_TokenScopesAmongRequired ==
    \A v \in Generated(pre) :
        (IsResource(req) /\ req.fault = "none" /\ Bearing(req, v) /\ Active(pre, v)) =>
            IF TokenScopeIDs(pre, v) \subseteq RequiredScopeIDs(req)
            THEN resp = Downstream
            ELSE resp = Unauthorized(403, ErrInsufficientScope)

\* A token of scope "r" opened a resource whose only scope is "rw".
C15_Witness ==
    \E v \in Generated(pre) :
        /\ IsResource(req)
        /\ Bearing(req, v)
        /\ Active(pre, v)
        /\ ~(TokenScopeIDs(pre, v) \subseteq RequiredScopeIDs(req))
        /\ resp = Downstream

\* ---- C16 ---------------------------------------------------------------
\* C16: a request bearing an active token that lacks a scope the resource
\* requires is answered 403 insufficient_scope, and the protected resource is
\* not reached.
C16_RequiredScopesCovered ==
    \A v \in Generated(pre) :
        (/\ IsResource(req)
         /\ req.fault = "none"
         /\ Bearing(req, v)
         /\ Active(pre, v)
         /\ ~(RequiredScopeIDs(req) \subseteq TokenScopeIDs(pre, v))) =>
            resp = Unauthorized(403, ErrInsufficientScope)

\* A token of scope "r" opened a resource that requires "r" and "w".
C16_Witness ==
    \E v \in Generated(pre) :
        /\ IsResource(req)
        /\ Bearing(req, v)
        /\ Active(pre, v)
        /\ TokenScopeIDs(pre, v) \subseteq RequiredScopeIDs(req)
        /\ ~(RequiredScopeIDs(req) \subseteq TokenScopeIDs(pre, v))
        /\ resp = Downstream

ValidConsent(P, r, rt) ==
    /\ IsAuthz(r)
    /\ P.isUserAuthenticated
    /\ r.method = "POST"
    /\ ~ClientUnknown(r)
    /\ Validated(P, r)
    /\ r.state # ""
    /\ r.scope # <<>>
    /\ r.response_type = rt
    /\ r.fault = "none"

\* C22: a valid consent POST for a code stores exactly one new grant, which
\* is active, and is answered 302 to the registered redirect URL with a query
\* of exactly the keys code and state: the new grant's code, which is not
\* empty, and the state of the request.
C22_CodeAndStateOnly ==
    ValidConsent(pre, req, "code") =>
        /\ resp.status = 302
        /\ resp.location.Scheme = RegisteredURL.Scheme
        /\ resp.location.Host = RegisteredURL.Host
        /\ DOMAIN resp.location.RawQuery = {"code", "state"}
        /\ resp.location.RawQuery["code"] # ""
        /\ DOMAIN p.GrantCodes \ DOMAIN pre.GrantCodes = {resp.location.RawQuery["code"]}
        /\ GrantActive(p, resp.location.RawQuery["code"])
        /\ resp.location.RawQuery["state"] = req.state

\* A valid consent POST for a code was redirected with more than code and state.
C22_Witness ==
    /\ ValidConsent(pre, req, "code")
    /\ resp.status = 302
    /\ "code" \in DOMAIN resp.location.RawQuery
    /\ "error" \in DOMAIN resp.location.RawQuery

\* ---- C23 ---------------------------------------------------------------
\* C23: a valid consent POST for a token is answered 302 with a fragment of
\* exactly access_token, token_type, expires_in, scope and state: the value
\* of a new access token, which has no refresh token, "bearer", the scope ids
\* of the request joined by spaces in their order, and the request's state;
\* and no refresh token is stored.
C23_ImplicitWithoutRefresh ==
    ValidConsent(pre, req, "token") =>
        /\ resp.status = 302
        /\ Len(resp.location.Fragment) = 2
        /\ LET fragment == resp.location.Fragment[2]
           IN  /\ DOMAIN fragment =
                     {"access_token", "token_type", "expires_in", "scope", "state"}
               /\ fragment.token_type = "bearer"
               /\ fragment.expires_in # ""
               /\ fragment.scope = req.scope
               /\ fragment.state = req.state
               /\ DOMAIN p.AccessTokens \ DOMAIN pre.AccessTokens = {fragment.access_token}
               /\ p.AccessTokens[fragment.access_token].RefreshToken = ""
        /\ p.RefreshTokens = pre.RefreshTokens

\* A valid consent POST for a token was redirected with the token in the fragment.
C23_Witness ==
    /\ ValidConsent(pre, req, "token")
    /\ resp.status = 302
    /\ Len(resp.location.Fragment) = 2
    /\ resp.location.Fragment[2].access_token \in DOMAIN p.AccessTokens

\* ---- C24 ---------------------------------------------------------------
\* Request r passes the checks of client and redirect_uri and then ends in
\* an error redirect: ScopesInfo fails, or GenToken fails in the implicit flow.
ErrorRedirected(P, r) ==
    /\ IsAuthz(r)
    /\ P.isUserAuthenticated
    /\ ~ClientUnknown(r)
    /\ Validated(P, r)
    /\ \/ r.fault = "ScopesInfo"
       \/ r.fault = "GenToken" /\ r.method = "POST" /\ r.response_type = "token"

\* The parameters of an error that came with state: error, error_description, state.
CarriesError(values, state) ==
    /\ {"error", "error_description", "state"} \subseteq DOMAIN values
    /\ values["error"] = "server_error"
    /\ values["error_description"] # ""
    /\ values["state"] = state

\* C24: an error redirect carries error, error_description and state in the
\* query of the redirect URL when response_type is code, and in its fragment
\* when response_type is token.
C24_ErrorsEncodedPerFlow ==
    ErrorRedirected(pre, req) =>
        /\ resp.status = 302
        /\ IF req.response_type = "code"
           THEN CarriesError(resp.location.RawQuery, req.state)
           ELSE /\ Len(resp.location.Fragment) = 2
                /\ CarriesError(resp.location.Fragment[2], req.state)

\* The error redirect of an implicit grant carries the error in the query.
C24_Witness ==
    /\ ErrorRedirected(pre, req)
    /\ req.response_type = "token"
    /\ req.fault = "GenToken"
    /\ resp.status = 302
    /\ CarriesError(resp.location.RawQuery, req.state)
    /\ resp.location.Fragment = pre.ClientURL.Fragment

\* ---- C25 ---------------------------------------------------------------
\* C25: an authorization_code request of an authenticated client that
\* presents a code the provider has no grant for is answered 400
\* invalid_grant, and no token is issued.
C25_UnknownCodeRejected ==
    (/\ IsExchange(req)
     /\ Accepted(req)
     /\ req.code # ""
     /\ req.code \notin DOMAIN pre.GrantCodes) =>
        /\ resp.status = 400
        /\ resp.error.Code = "invalid_grant"
        /\ resp.token = ZeroToken
        /\ p = pre

\* The request with an unknown code was not answered: the handler panicked.
C25_Witness ==
    /\ IsExchange(req)
    /\ Accepted(req)
    /\ req.code = "unknown"
    /\ req.code \notin DOMAIN pre.GrantCodes
    /\ resp = Panic
    /\ p = pre

\* ---- C26 ---------------------------------------------------------------
\* C26: the token of a 200 response of the token endpoint has a refresh
\* token, which the provider has stored, when the grant type is
\* authorization_code or password, and has none, and none is stored, when
\* the grant type is client_credentials.
C26_RefreshTokenPerGrantType ==
    (IsTokenPost(req) /\ resp.status = 200) =>
        /\ req.grant_type \in {"authorization_code", "password"} =>
              /\ resp.token.RefreshToken # ""
              /\ resp.token.RefreshToken \in DOMAIN p.RefreshTokens
        /\ req.grant_type = "client_credentials" =>
              /\ resp.token.Value # ""
              /\ resp.token.RefreshToken = ""
              /\ p.RefreshTokens = pre.RefreshTokens

\* A client_credentials request was answered 200 after a code was exchanged.
C26_Witness ==
    /\ IsTokenPost(req)
    /\ req.grant_type = "client_credentials"
    /\ resp.status = 200
    /\ \E c \in DOMAIN pre.GrantCodes : pre.GrantCodes[c].IsUsed
    /\ \E t \in DOMAIN pre.AccessTokens : pre.AccessTokens[t].RefreshToken # ""

\* ---- C27 ---------------------------------------------------------------
\* C27: whatever requests the authorization endpoint has served, ClientInfo
\* gives the client's redirect URL with the text it was registered with, and
\* a valid consent POST that names the registered URL is not turned down.
C27_RegisteredURLImmutable ==
    /\ String(Deref(p, ClientInfo(p, "test_client_id").RedirectURL)) = String(RegisteredURL)
    /\ (/\ IsAuthz(req)
        /\ pre.isUserAuthenticated
        /\ req.method = "POST"
        /\ req.redirect_uri = Raw(RegisteredURL)
        /\ req.fault = "none") => resp.status = 302

\* After a consent POST was answered with a code, the same request is turned
\* down because its redirect_uri no longer equals the client's URL.
C27_Witness ==
    /\ IsAuthz(req)
    /\ pre.isUserAuthenticated
    /\ req.method = "POST"
    /\ req.redirect_uri = Raw(RegisteredURL)
    /\ req.response_type = "code"
    /\ req.fault = "none"
    /\ "code" \in DOMAIN pre.ClientURL.RawQuery
    /\ resp = HTMLError(ErrRedirectURLMismatch)

\* ---- C28 ---------------------------------------------------------------
\* C28: the response to a request during which a call of the provider failed
\* is the same whatever message the failing call returned.
C28_ProviderErrorsHidden ==
    (req.endpoint = "tokens" /\ "errText" \in DOMAIN req) =>
        \A t \in ErrorTexts : TokenEndpoint(pre, WithErrorText(req, t)).resp = resp

\* The message of the provider's GrantInfo is the description of the response.
C28_Witness ==
    /\ IsExchange(req)
    /\ req.fault = "GrantInfo"
    /\ "errText" \in DOMAIN req
    /\ resp.status = 400
    /\ resp.error.Description = req.errText
    /\ req.errText # ProviderErrorText

\* ---- C29 ---------------------------------------------------------------
\* Request r presents a code of P that was already exchanged.
Replay(P, r) ==
    /\ IsExchange(r)
    /\ Accepted(r)
    /\ r.code \in DOMAIN P.GrantCodes
    /\ P.GrantCodes[r.code].IsUsed

\* Code c is the only one of P that has been exchanged, so that every token
\* of P was issued from its grant or by refreshing one that was.
OnlyGrantUsed(P, c) == \A d \in DOMAIN P.GrantCodes : P.GrantCodes[d].IsUsed => d = c

\* C29: a request that presents a used code again is rejected, and the
\* tokens issued from that grant are revoked: the provider no longer has
\* them, as access tokens or as refresh tokens.
C29_ReplayRevokesTokens ==
    (Replay(pre, req) /\ OnlyGrantUsed(pre, req.code)) =>
        /\ resp.status = 400
        /\ resp.token = ZeroToken
        /\ DOMAIN p.AccessTokens = {}
        /\ DOMAIN p.RefreshTokens = {}

\* A used code was presented again and rejected, and the tokens issued from
\* its grant are all still there.
C29_Witness ==
    /\ Replay(pre, req)
    /\ OnlyGrantUsed(pre, req.code)
    /\ resp.status = 400
    /\ DOMAIN pre.AccessTokens # {}
    /\ DOMAIN pre.RefreshTokens # {}
    /\ p = pre

\* ---- C30 ---------------------------------------------------------------
\* Request r is a consent POST that passes every check of authCodeGrant1,
\* and the provider's call that generates what it asks for fails.
ConsentFails(P, r) ==
    /\ IsAuthz(r)
    /\ P.isUserAuthenticated
    /\ r.method = "POST"
    /\ ~ClientUnknown(r)
    /\ Validated(P, r)
    /\ r.state # ""
    /\ r.scope # <<>>
    /\ \/ r.response_type = "code" /\ r.fault = "GenGrant"
       \/ r.response_type = "token" /\ r.fault = "GenToken"

\* C30: when GenGrant fails in the code flow or GenToken in the implicit
\* flow, the consent form is rendered with ErrServerError; there is no
\* redirect, no grant and no token.
C30_ProviderFailureRendersForm ==
    ConsentFails(pre, req) =>
        /\ resp = HTMLError(ErrServerError(""))
        /\ p.GrantCodes = pre.GrantCodes
        /\ p.AccessTokens = pre.AccessTokens

\* The failure of GenToken in the implicit flow was answered with a redirect.
C30_Witness ==
    /\ ConsentFails(pre, req)
    /\ req.response_type = "token"
    /\ resp.status = 302
    /\ resp.location.RawQuery["error"] = "server_error"
    /\ p.AccessTokens = pre.AccessTokens

\* ---- C31 ---------------------------------------------------------------
\* C31: every HTML response of the authorization endpoint, form or error
\* page, has Strict-Transport-Security with the configured max-age in
\* seconds, X-Frame-Options SAMEORIGIN, X-XSS-Protection "1; mode=block" and
\* X-Content-Type-Options nosniff.
C31_SecurityHeaders ==
    (IsAuthz(req) /\ resp.kind = "html") =>
        /\ {"Strict-Transport-Security", "X-Frame-Options", "X-XSS-Protection",
            "X-Content-Type-Options"} \subseteq DOMAIN resp.headers
        /\ resp.headers["Strict-Transport-Security"] = <<"max-age=", DefaultSTSMaxAge>>
        /\ resp.headers["X-Frame-Options"] = "SAMEORIGIN"
        /\ resp.headers["X-XSS-Protection"] = "1; mode=block"
        /\ resp.headers["X-Content-Type-Options"] = "nosniff"

\* An error page went out with max-age=0 while a year is configured.
C31_Witness ==
    /\ IsAuthz(req)
    /\ resp.kind = "html"
    /\ resp.error # NoError
    /\ resp.headers["Strict-Transport-Security"] = <<"max-age=", 0>>
    /\ resp.headers["X-Frame-Options"] = "SAMEORIGIN"

\* ---- C32 ----
\* C32: every JSON response of the token endpoint that carries a token, for
\* each of the grant types authorization_code, password, client_credentials
\* and refresh_token, has the headers Cache-Control: no-store, Pragma:
\* no-cache and Expires: 0.
C32_TokenNotCached ==
    (IsTokenPost(req) /\ resp.kind = "json" /\ resp.token # ZeroToken) =>
        /\ {"Cache-Control", "Pragma", "Expires"} \subseteq DOMAIN resp.headers
        /\ resp.headers["Cache-Control"] = "no-store"
        /\ resp.headers["Pragma"] = "no-cache"
        /\ resp.headers["Expires"] = "0"

\* A refresh_token request is answered with a new token that must not be cached.
C32_Witness ==
    /\ IsRefresh(req) /\ resp.status = 200 /\ resp.token # ZeroToken
    /\ resp.headers["Cache-Control"] = "no-store"

\* ---- C33 ----
\* C33: an authorization_code request of an authenticated client whose code
\* is empty or missing is answered 400 with the error unauthorized_client and
\* the description "Authorization code can't be empty.", and the provider is
\* left as it was.
C33_EmptyCode ==
    (IsExchange(req) /\ ClientAuthenticated(req) /\ req.code = "") =>
        /\ resp.status = 400
        /\ resp.error.Code = "unauthorized_client"
        /\ resp.error.Description = "Authorization code can't be empty."
        /\ p = pre

\* An authenticated client sent no code and got 400 unauthorized_client.
C33_Witness ==
    /\ IsExchange(req) /\ ClientAuthenticated(req) /\ req.code = ""
    /\ resp.status = 400 /\ resp.error.Code = "unauthorized_client"
    /\ resp.error.Description = ErrUnauthorizedClient.Description
    /\ p = pre

\* ---- C34 ----
\* The response is the authorization form with the one error err.
FormWith(err) == resp.kind = "html" /\ resp.status = 200 /\ resp.error = err

\* The response is a redirect to the URL of the request whose query reports
\* the one error err.
RedirectWith(err) ==
    /\ resp.kind = "redirect" /\ resp.status = 302 /\ resp.error = NoError
    /\ resp.location = EncodeErrInURI(Parse(req.redirect_uri), err)
    /\ resp.location.RawQuery["error"] = err.Code
    /\ resp.location.RawQuery["error_description"] = err.Description

\* C34: for an authenticated resource owner the authorization endpoint
\* reports the error of the first step that fails, in the order client_id
\* missing, ClientInfo failing or not knowing the client, redirect_uri not
\* parsing, its scheme not https, its text not that of the client's URL,
\* state missing, response_type unsupported, scope missing, ScopesInfo
\* failing; it reports nothing of the later steps, whose provider calls
\* cannot then have failed the request, and the provider is left as it was.
C34_FirstFailingStep ==
    (IsAuthz(req) /\ pre.isUserAuthenticated) =>
        LET u == Parse(req.redirect_uri)
            failed == <<req.client_id = "",
                        req.fault = "ClientInfo",
                        req.fault = "ClientInfoNotFound",
                        ~ParseOK(req.redirect_uri),
                        u.Scheme # "https",
                        String(u) # String(pre.ClientURL),
                        req.state = "",
                        req.response_type \notin {"code", "token"},
                        req.scope = <<>>,
                        req.fault = "ScopesInfo">>
            reported == <<FormWith(ErrClientIDMissing),
                          FormWith(ErrServerError("")),
                          FormWith(ErrClientIDNotFound),
                          FormWith(ErrRedirectURLInvalid),
                          FormWith(ErrRedirectURLInvalid),
                          FormWith(ErrRedirectURLMismatch),
                          RedirectWith(ErrStateRequired(req.state)),
                          RedirectWith(ErrUnsupportedResponseType(req.state)),
                          RedirectWith(ErrScopeRequired(req.state)),
                          RedirectWith(ErrServerError(req.state))>>
        IN  \A i \in DOMAIN failed :
                (failed[i] /\ \A j \in 1..(i - 1) : ~failed[j]) =>
                    (reported[i] /\ p = pre)

\* A request without state and without scope, of an unsupported
\* response_type and with ScopesInfo failing, is told of the missing state alone.
C34_Witness ==
    /\ IsAuthz(req) /\ pre.isUserAuthenticated
    /\ req.client_id # "" /\ Validated(pre, req)
    /\ req.state = "" /\ req.response_type = "id_token" /\ req.scope = <<>>
    /\ req.fault = "ScopesInfo"
    /\ RedirectWith(ErrStateRequired(""))
    /\ p = pre

\* ---- C35 ----
\* Value v identifies a token provider P holds.
Held(P, v) == v \in DOMAIN P.AccessTokens \cup DOMAIN P.RefreshTokens

\* C35: a request reaches the protected resource only if the token value it
\* bears identifies a token the provider holds; a value that was never issued
\* or that RevokeToken removed is rejected.
C35_OnlyHeldTokensPass ==
    (IsResource(req) /\ resp = Downstream) =>
        \E v \in Generated(pre) : Bearing(req, v) /\ Held(pre, v)

\* A request bearing a value that was never issued reached the protected resource.
C35_Witness ==
    /\ IsResource(req)
    /\ req.fault = "none"
    /\ Bearing(req, "unknown")
    /\ ~Held(pre, "unknown")
    /\ TokenInfo(pre, "unknown") = ZeroToken
    /\ resp = Downstream

\* ---- C36 ----
\* C36: a request that bears the value of a refresh token as its bearer
\* credential does not reach the protected resource.
C36_RefreshTokenNotBearer ==
    \A v \in DOMAIN pre.RefreshTokens :
        (IsResource(req) /\ Bearing(req, v)) => resp # Downstream

\* A request bearing a refresh token, which is no access token, reached the
\* protected resource.
C36_Witness ==
    \E v \in DOMAIN pre.RefreshTokens :
        /\ v \notin DOMAIN pre.AccessTokens
        /\ IsResource(req)
        /\ req.fault = "none"
        /\ Bearing(req, v)
        /\ resp = Downstream

\* ---- C37 ----
\* C37: however authorization requests of a resource owner who is not logged
\* in interleave, the Location of each 302 carries the URL of the request it
\* answers in the redirect parameter, and the login URL of the configuration
\* stays as it was configured.
C37_LoginURLNotShared ==
    /\ p.LoginURL = ConfiguredLoginURL
    /\ (IsAuthz(req) /\ ~pre.isUserAuthenticated /\ resp.status = 302) =>
           /\ "redirect_to" \in DOMAIN resp.location.RawQuery
           /\ resp.location.RawQuery["redirect_to"] = RequestURL(req)

\* A request was sent to the login page with the URL of another request, and
\* the login URL of the configuration now holds that URL.
C37_Witness ==
    /\ IsAuthz(req) /\ ~pre.isUserAuthenticated /\ resp.status = 302
    /\ resp.location.RawQuery["redirect_to"] # RequestURL(req)
    /\ resp.location.RawQuery["redirect_to"] \in {RequestURL(r) : r \in LoginRequests}
    /\ p.LoginURL # ConfiguredLoginURL

\* ---- C38 ----
\* Request r passes every check of authCodeGrant1 against provider P, whose
\* resource owner is logged in and whose ClientInfo and ScopesInfo answer.
PassesValidation(P, r) ==
    /\ P.isUserAuthenticated
    /\ ~ClientUnknown(r)
    /\ Validated(P, r)
    /\ r.state # ""
    /\ r.response_type \in {"code", "token"}
    /\ r.scope # <<>>
    /\ r.fault \notin {"ClientInfo", "ScopesInfo"}

\* The grants and tokens of provider P and the values generated for them.
Issued(P) == <<P.GrantCodes, P.AccessTokens, P.RefreshTokens, P.uuid>>

\* C38: a GET to the authorization endpoint creates neither a grant nor a
\* token, for response_type code and token alike; a GET that passes
\* validation is answered 200 with the consent form and no error; and a
\* grant or token is created only by a POST that passed validation.
C38_GetCreatesNothing ==
    IsAuthz(req) =>
        /\ req.method = "GET" => Issued(p) = Issued(pre)
        /\ (req.method = "GET" /\ PassesValidation(pre, req)) =>
               /\ resp.kind = "html" /\ resp.status = 200 /\ resp.error = NoError
               /\ resp.data.GrantType = req.response_type
               /\ p = pre
        /\ Issued(p) # Issued(pre) =>
               req.method = "POST" /\ PassesValidation(pre, req)

\* After a grant was created by a POST, a valid GET with response_type token
\* got the consent form and created nothing.
C38_Witness ==
    /\ IsAuthz(req) /\ req.method = "GET" /\ PassesValidation(pre, req)
    /\ req.response_type = "token"
    /\ pre.uuid > 0
    /\ resp.kind = "html" /\ resp.status = 200 /\ resp.error = NoError
    /\ p = pre

\* ---- C39 ----
\* C39: a request to the token endpoint, POST or DELETE, that is not
\* answered 200 leaves the provider as it was: no token is issued, no grant
\* is marked used, no refresh token is invalidated and no token is revoked.
C39_FailureChangesNothing ==
    (req.endpoint = "tokens" /\ resp.kind # "none" /\ resp.status # 200) =>
        /\ Issued(p) = Issued(pre)
        /\ p = pre

\* The exchange of an active grant for which GenToken failed was answered 500
\* and the grant is still unused.
C39_Witness ==
    /\ IsExchange(req) /\ ClientAuthenticated(req)
    /\ GrantActive(pre, req.code)
    /\ req.fault = "GenToken"
    /\ resp.status = 500
    /\ GrantActive(p, req.code)
    /\ p = pre

\* ---- C40 ----
\* The response to req and the provider after it are what handler handlerFn makes of it.
HandledBy(handlerFn) == Out(p, resp) = Call(handlerFn, pre, req)

\* C40: a request whose path starts with the authorization endpoint is
\* handled by CreateGrant when its method is GET or POST, a request whose
\* path starts with the token endpoint by IssueToken when it is POST and by
\* RevokeToken when it is DELETE; with another method it is answered 405
\* "Method Not Allowed"; in neither case does it reach the next handler;
\* every other request is passed to the next handler.
C40_Dispatch ==
    req.endpoint = "handler" =>
        LET authz == HasPrefix(req.path, pre.authzEndpoint)
            token == HasPrefix(req.path, pre.tokenEndpoint)
        IN  /\ authz =>
                 /\ resp # Downstream
                 /\ IF req.method \in {"GET", "POST"} THEN HandledBy("CreateGrant")
                    ELSE resp = MethodNotAllowed /\ p = pre
            /\ token =>
                 /\ resp # Downstream
                 /\ IF req.method = "POST" THEN HandledBy("IssueToken")
                    ELSE IF req.method = "DELETE" THEN HandledBy("RevokeToken")
                    ELSE resp = MethodNotAllowed /\ p = pre
            /\ (~authz /\ ~token) => (resp = Downstream /\ p = pre)

\* With the authorization endpoint set to /oauth2, a DELETE of a token the
\* client holds at the default token endpoint was answered 405, and the
\* token is still there.
C40_Witness ==
    /\ req.endpoint = "handler"
    /\ pre.authzEndpoint = OAuth2Path /\ pre.tokenEndpoint = TokenPath
    /\ req.method = "DELETE"
    /\ HasPrefix(req.path, pre.tokenEndpoint)
    /\ req.token \in DOMAIN pre.AccessTokens
    /\ resp = MethodNotAllowed
    /\ p = pre
====
